---------------------------- MODULE Spec2Model ----------------------------
(***************************************************************************)
(* TransformerBee.mcp: the REST gateway (rest_api.py), the summarizer      *)
(* (summarizer.py) and the tool-call server (server.py).  The model covers *)
(* the per-identity sliding-window rate limiter, the bearer-token verifier,*)
(* the POST /summarize pipeline, the health probe behind GET /health, and  *)
(* the lifespan and the three tools of the tool-call server.               *)
(*                                                                         *)
(* Time is an integer clock; one unit is one second, and two calls may     *)
(* read the same clock value.                                              *)
(***************************************************************************)
EXTENDS Integers, Sequences, FiniteSets, TLC

VARIABLES
    rate_limit,        \* _RATE_LIMIT, read once at import
    rate_window,       \* _RATE_WINDOW_SECONDS, read once at import
    users,             \* the identities that send calls in this run
    now,               \* the clock read by datetime.now(timezone.utc)
    rate_limit_store,  \* _rate_limit_store: identity -> list of timestamps
    admitted,          \* history: every timestamp ever appended, per identity
    last,              \* history: the latest check_rate_limit call
    streak,            \* history: per identity, the calls since its record was empty
    horizon,           \* the last clock value of this run
    req,               \* the requests and calls in flight, one record per slot
    posted,            \* how many requests and calls were started so far
    jwks_client,       \* the module global jwks_client
    jwks_created,      \* how many PyJWKClient objects were constructed
    transformerbee,    \* how transformer.bee answers in this run
    ollama,            \* how Ollama answers in this run
    ollama_model,      \* _OLLAMA_MODEL, read once at import
    probe,             \* the GET /health request in flight
    server,            \* the tool-call server: its lifespan and its context
    bee_clients,       \* every upstream-conversion client constructed so far
    call               \* the tool call or function call in flight

limiter_vars == <<rate_limit, rate_window, users, now, rate_limit_store,
                  admitted, last, streak, horizon>>

pipeline_vars == <<req, posted, jwks_client, jwks_created, transformerbee, ollama>>

health_vars == <<ollama_model, probe>>

mcp_vars == <<server, bee_clients, call>>

vars == <<limiter_vars, pipeline_vars, health_vars, mcp_vars>>

-----------------------------------------------------------------------------
(* Bounds of the model *)

MaxTime == 4          \* the clock runs over 0..MaxTime
MaxExtraCalls == 2    \* consecutive rejected calls of one identity
MaxBurstTime == 1     \* the clock range under the default configuration
MaxRequests == 2      \* requests and calls started in one run of the gateway
MaxClock == 2         \* the clock range of a run of the gateway
MaxModels == 2        \* the entries of a models listing
MaxLifespans == 2     \* the times the tool-call server is started
MaxUnits == 2         \* the message units of one conversion result
MaxTransactions == 2  \* the transactions of one message unit

(* Program constants *)

DEFAULT_RATE_LIMIT == 10
DEFAULT_RATE_WINDOW_SECONDS == 60

Identities == {"user123", "anonymous"}

None == "None"

-----------------------------------------------------------------------------
(* The rate-limit record: a defaultdict(list) *)

\* _rate_limit_store[user_id] read: a missing key reads as the empty list
StoreGet(st, u) == IF u \in DOMAIN st THEN st[u] ELSE <<>>

\* _rate_limit_store[user_id] = v
StoreSet(st, u, v) == [k \in (DOMAIN st) \cup {u} |-> IF k = u THEN v ELSE st[k]]

\* mutant: nothing is removed from the list
PruneSkipped(entries, window_start) == entries

\* mutant: the comparison with window_start made inclusive
PruneInclusive(entries, window_start) ==
    SelectSeq(entries, LAMBDA t : t >= window_start)

\* [t for t in entries if t > window_start]
Prune(entries, window_start) == SelectSeq(entries, LAMBDA t : t > window_start)

\* mutant: the count compared with > instead of >=
LimitReachedOffByOne(entries, limit) == Len(entries) > limit

\* len(_rate_limit_store[user_id]) >= _RATE_LIMIT
LimitReached(entries, limit) == Len(entries) >= limit

\* An exception in flight, or none: kind is the class name, detail the message
\* text, status the HTTP status it carries (0 when it carries none), and num
\* and reason the values an f-string puts into the detail.
Exception(kind, detail) ==
    [kind |-> kind, status |-> 0, detail |-> detail, num |-> 0, reason |-> ""]

NoException == Exception("None", "")

Raised(e) == e.kind # "None"

HTTPException(status, detail, num, reason) ==
    [kind |-> "HTTPException", status |-> status, detail |-> detail,
     num |-> num, reason |-> reason]

\* HTTPException(status_code=429,
\*     detail=f"Rate limit exceeded. Max {_RATE_LIMIT} requests per minute.")
RateLimitExceeded(limit) ==
    HTTPException(429, "Rate limit exceeded. Max {} requests per minute.", limit, "")

\* mutant: the timestamp appended before the count is compared
check_rate_limit_AppendFirst(st, user_id, t, limit, window) ==
    LET appended == Append(Prune(StoreGet(st, user_id), t - window), t)
        st1 == StoreSet(st, user_id, appended)
    IN  IF LimitReached(appended, limit)
        THEN [store |-> st1, raised |-> RateLimitExceeded(limit)]
        ELSE [store |-> st1, raised |-> NoException]

\* mutant: a rejected call appends its timestamp too
check_rate_limit_RecordsRejected(st, user_id, t, limit, window) ==
    LET pruned == Prune(StoreGet(st, user_id), t - window)
    IN  [store |-> StoreSet(st, user_id, Append(pruned, t)),
         raised |-> IF LimitReached(pruned, limit)
                    THEN RateLimitExceeded(limit)
                    ELSE NoException]

\* mutant: one record is kept for all identities
check_rate_limit_SharedRecord(st, user_id, t, limit, window) ==
    LET pruned == Prune(StoreGet(st, "anonymous"), t - window)
        st1 == StoreSet(st, "anonymous", pruned)
    IN  IF LimitReached(pruned, limit)
        THEN [store |-> st1, raised |-> RateLimitExceeded(limit)]
        ELSE [store |-> StoreSet(st1, "anonymous", Append(pruned, t)),
              raised |-> NoException]

\* mutant: an admitted call leaves no timestamp behind
check_rate_limit_ChecksOnly(st, user_id, t, limit, window) ==
    LET pruned == Prune(StoreGet(st, user_id), t - window)
    IN  [store |-> StoreSet(st, user_id, pruned),
         raised |-> IF LimitReached(pruned, limit)
                    THEN RateLimitExceeded(limit)
                    ELSE NoException]

\* check_rate_limit(user_id) evaluated on store st at clock value t:
\* the store it leaves and the exception it raises, if any
check_rate_limit(st, user_id, t, limit, window) ==
    LET window_start == t - window
        pruned == Prune(StoreGet(st, user_id), window_start)
        st1 == StoreSet(st, user_id, pruned)
    IN  IF LimitReached(pruned, limit)
        THEN [store |-> st1, raised |-> RateLimitExceeded(limit)]
        ELSE [store |-> StoreSet(st1, user_id, Append(pruned, t)),
              raised |-> NoException]

-----------------------------------------------------------------------------
(* History kept beside the record *)

\* the latest call: who, when, the stored list before and after it, what it
\* raised, and the rejections of that identity that came right before it
NoCall == [user |-> None, t |-> 0, ok |-> FALSE, raised |-> NoException,
           before |-> <<>>, after |-> <<>>, rejects_before |-> 0]

\* n: calls since the record of the identity was last empty at a call,
\* first: the clock of the first of them, all_ok: none of them was rejected,
\* rejects: rejected calls since the last admitted one,
\* held: the stored length before the first of those rejections
NoStreak == [n |-> 0, first |-> 0, all_ok |-> TRUE, rejects |-> 0, held |-> 0]

NextStreak(s, before, t, ok, window) ==
    LET fresh == Prune(before, t - window) = <<>>
        n == IF fresh THEN 1 ELSE s.n + 1
    IN  [n |-> n,
         first |-> IF fresh THEN t ELSE s.first,
         all_ok |-> IF fresh THEN ok ELSE (s.all_ok /\ ok),
         rejects |-> IF ok THEN 0 ELSE s.rejects + 1,
         held |-> IF ok THEN 0 ELSE IF s.rejects = 0 THEN Len(before) ELSE s.held]

\* the effect of one check_rate_limit call on the record and on the history
Limiter(user_id, res) ==
    LET before == StoreGet(rate_limit_store, user_id)
        ok == ~Raised(res.raised)
    IN  /\ rate_limit_store' = res.store
        /\ admitted' = IF ok THEN [admitted EXCEPT ![user_id] = Append(@, now)]
                       ELSE admitted
        /\ last' = [user |-> user_id, t |-> now, ok |-> ok, raised |-> res.raised,
                    before |-> before, after |-> StoreGet(res.store, user_id),
                    rejects_before |-> streak[user_id].rejects]
        /\ streak' = [streak EXCEPT ![user_id] =
                         NextStreak(@, before, now, ok, rate_window)]

-----------------------------------------------------------------------------
(* Exception classes of jwt, httpx, aiohttp and the builtins, as the except *)
(* clauses of verify_token and summarize see them                            *)

BaseClass ==
    [c \in {"DecodeError", "ExpiredSignatureError", "InvalidAudienceError",
            "InvalidIssuerError"} |-> "InvalidTokenError"]
    @@ [c \in {"InvalidSignatureError"} |-> "DecodeError"]
    @@ [c \in {"InvalidTokenError", "PyJWKClientError"} |-> "PyJWTError"]
    @@ [c \in {"ConnectTimeout", "ReadTimeout"} |-> "TimeoutException"]
    @@ [c \in {"TimeoutException", "NetworkError"} |-> "TransportError"]
    @@ [c \in {"ConnectError"} |-> "NetworkError"]
    @@ [c \in {"TransportError"} |-> "RequestError"]
    @@ [c \in {"RequestError", "HTTPStatusError"} |-> "HTTPError"]
    @@ [c \in {"ClientResponseError"} |-> "ClientError"]
    @@ [c \in {"JSONDecodeError"} |-> "ValueError"]
    @@ [c \in {"NotImplementedError"} |-> "RuntimeError"]
    @@ [c \in {"IndexError", "KeyError"} |-> "LookupError"]
    @@ [c \in {"TimeoutError"} |-> "OSError"]
    @@ [c \in {"PyJWTError", "HTTPError", "ClientError", "HTTPException",
               "TypeError", "ValueError", "LookupError", "AttributeError",
               "RuntimeError", "OSError"} |-> "Exception"]

RECURSIVE IsSubclass(_, _)
IsSubclass(c, base) ==
    IF c = base THEN TRUE
    ELSE IF c \in DOMAIN BaseClass THEN IsSubclass(BaseClass[c], base)
    ELSE FALSE

\* "except base as e" catches e
Catches(base, e) == Raised(e) /\ IsSubclass(e.kind, base)

-----------------------------------------------------------------------------
(* Bearer tokens and verify_token *)

Subjects == {"user123"}

\* a token as jwt sees it: can its header be decoded, is its kid in the key
\* set, does its signature verify, and are exp, iss and aud acceptable
TokenShapes ==
    [wellformed : BOOLEAN, kid_known : BOOLEAN, signature_ok : BOOLEAN,
     expired : BOOLEAN, issuer_ok : BOOLEAN, audience_ok : BOOLEAN,
     sub : Subjects \cup {None}]

Defects(t) ==
    Cardinality({f \in {"wellformed", "kid_known", "signature_ok",
                        "issuer_ok", "audience_ok"} : ~t[f]})
    + (IF t.expired THEN 1 ELSE 0)

\* the tokens requests carry: accepted ones, with and without a subject, and
\* every token that differs from an accepted one in one respect
Tokens == {t \in TokenShapes : Defects(t) = 0 \/ (Defects(t) = 1 /\ t.sub # None)}

\* no Authorization header
NoCredentials == [absent |-> TRUE]

\* PyJWKClient.get_signing_key_from_jwt(token): the exception it raises
get_signing_key_from_jwt(token) ==
    IF ~token.wellformed THEN Exception("DecodeError", "Not enough segments")
    ELSE IF ~token.kid_known
    THEN Exception("PyJWKClientError", "Unable to find a signing key that matches")
    ELSE NoException

\* jwt.decode(token, key, algorithms=["RS256"], audience=..., issuer=...):
\* the exception it raises
jwt_decode(token) ==
    IF ~token.signature_ok
    THEN Exception("InvalidSignatureError", "Signature verification failed")
    ELSE IF token.expired
    THEN Exception("ExpiredSignatureError", "Signature has expired")
    ELSE IF ~token.issuer_ok THEN Exception("InvalidIssuerError", "Invalid issuer")
    ELSE IF ~token.audience_ok
    THEN Exception("InvalidAudienceError", "Audience doesn't match")
    ELSE NoException

\* the payload of an accepted token
Payload(token) == [sub |-> token.sub]

\* mutant: every token is accepted
verify_token_Lenient(token) == [payload |-> Payload(token), raised |-> NoException]

\* verify_token(credentials): the payload it returns and the exception that
\* leaves it; only jwt.exceptions.InvalidTokenError is turned into a 401
verify_token(token) ==
    LET e1 == get_signing_key_from_jwt(token)
        e == IF Raised(e1) THEN e1 ELSE jwt_decode(token)
    IN  IF ~Raised(e) THEN [payload |-> Payload(token), raised |-> NoException]
        ELSE IF Catches("InvalidTokenError", e)
        THEN [payload |-> Payload(token),
              raised |-> HTTPException(401, "Invalid token: {}", 0, e.detail)]
        ELSE [payload |-> Payload(token), raised |-> e]

\* HTTPBearer(): a request without credentials is answered before verify_token
security(credentials) ==
    IF credentials = NoCredentials
    THEN HTTPException(401, "Not authenticated", 0, "")
    ELSE NoException

\* mutant: every request is limited under the default identity
UserId_AlwaysAnonymous(payload) == "anonymous"

\* token_payload.get("sub", "anonymous")
UserId(payload) == IF payload.sub = None THEN "anonymous" ELSE payload.sub

-----------------------------------------------------------------------------
(* The summarizer and the handler's except clauses *)

Edifacts == {"UNB+UNOC:3+...", ""}

\* the BO4E JSON text summarizer.convert_edifact_to_bo4e builds from the
\* answer of transformer.bee
Bo4eJson(edifact) ==
    IF edifact = "" THEN "[]"
    ELSE "[{\"stammdaten\":[],\"transaktionen\":[{\"stammdaten\":[],"
         \o "\"transaktionsdaten\":{}}],\"nachrichtendaten\":{},\"unh\":\"1\"}]"

\* the parameters summarize_edifact declares without a default: edifact, auth_token
SummarizeEdifactRequired == 2

\* the positional arguments of summarize_edifact(request.edifact)
HandlerArguments == 1

\* binding a call of summarize_edifact with nargs positional arguments
BindArguments(nargs) ==
    IF nargs < SummarizeEdifactRequired
    THEN Exception("TypeError", "missing 1 required positional argument: 'auth_token'")
    ELSE NoException

\* what transformer.bee does with a conversion request
BeeBehaviours == {"ok", "ClientResponseError", "host_unset"}

\* summarizer.convert_edifact_to_bo4e: the exception it raises
convert_edifact_to_bo4e(bee) ==
    IF bee = "host_unset"
    THEN Exception("ValueError", "TRANSFORMERBEE_HOST environment variable is not set")
    ELSE IF bee = "ClientResponseError"
    THEN [Exception("ClientResponseError", "Bad Request") EXCEPT !.status = 400]
    ELSE NoException

\* the default of OLLAMA_HOST
OLLAMA_HOST == "http://localhost:11434"

\* what Ollama does with POST /api/generate
OllamaBehaviours ==
    {"ok", "HTTPStatusError", "ConnectError", "ConnectTimeout", "ReadTimeout",
     "no_response_key"}

Summaries == {"Dies ist eine Testzusammenfassung."}

\* mutant: every failure of the generate request leaves as one generic error
summarize_bo4e_Generic(llm) ==
    IF llm = "ok" THEN NoException ELSE Exception("Exception", "Summarization failed")

\* summarize_bo4e: the exception it raises
summarize_bo4e(llm) ==
    IF llm = "ok" THEN NoException
    ELSE IF llm = "HTTPStatusError"
    THEN [Exception("HTTPStatusError",
                    "Server error '503 Service Unavailable' for url '"
                    \o OLLAMA_HOST \o "/api/generate'\nFor more information check: "
                    \o "https://developer.mozilla.org/en-US/docs/Web/HTTP/Status/503")
          EXCEPT !.status = 503]
    ELSE IF llm = "ConnectError" THEN Exception("ConnectError", "Connection refused")
    ELSE IF llm = "no_response_key" THEN Exception("KeyError", "'response'")
    ELSE Exception(llm, "Request timed out")

\* the try/except of summarize around "await summarize_edifact(...)": the
\* exception that leaves the handler when the call raised e
summarize_except(e) ==
    IF Catches("HTTPStatusError", e)
    THEN HTTPException(500, "Ollama error: {}", e.status, "")
    ELSE IF Catches("ConnectError", e)
    THEN HTTPException(500, "Cannot connect to Ollama: {}", 0, e.detail)
    ELSE IF Catches("TimeoutException", e)
    THEN HTTPException(500, "Ollama request timed out: {}", 0, e.detail)
    ELSE e

\* the answer the client gets: the handler's return value, the HTTPException
\* that left it, or the server's answer to any other exception
Response(raised, summary) ==
    IF ~Raised(raised)
    THEN [status |-> 200, detail |-> "", num |-> 0, reason |-> "", summary |-> summary]
    ELSE IF raised.kind = "HTTPException"
    THEN [status |-> raised.status, detail |-> raised.detail, num |-> raised.num,
          reason |-> raised.reason, summary |-> ""]
    ELSE [status |-> 500, detail |-> "Internal Server Error", num |-> 0,
          reason |-> "", summary |-> ""]

NoResponse == [status |-> 0, detail |-> "", num |-> 0, reason |-> "", summary |-> ""]

-----------------------------------------------------------------------------
(* GET /health and check_ollama_health *)

OLLAMA_MODEL == "llama3"

\* the values OLLAMA_MODEL is set to: a bare name, a name with its tag, and a
\* model that no listing below carries
ConfiguredModels == {"llama3", "llama3:latest", "mistral"}

\* the names the entries of a models listing carry
ModelNames == {"llama3:latest", "llama3", "llama3:8b", "tinyllama:latest"}

\* an entry of "models": a dict with a name, a dict without one, a dict whose
\* name is null, or a value that is not a dict
ModelEntries ==
    [kind : {"named"}, name : ModelNames]
    \cup [kind : {"unnamed", "null_name", "not_a_dict"}, name : {""}]

\* the lists of at most n entries
RECURSIVE ListsUpTo(_, _)
ListsUpTo(S, n) ==
    IF n = 0 THEN {<<>>}
    ELSE ListsUpTo(S, n - 1)
         \cup {Append(l, x) : l \in {m \in ListsUpTo(S, n - 1) : Len(m) = n - 1},
                              x \in S}

\* what the request GET {host}/api/tags comes to: an exception of client.get,
\* or a response with a status and a body
ListingOutcomes ==
    [exc : {"ConnectError", "ConnectTimeout", "ReadTimeout"}, status : {0},
     body : {"none"}, models : {<<>>}]
    \cup [exc : {"None"}, status : {301, 404, 500}, body : {"none"}, models : {<<>>}]
    \cup [exc : {"None"}, status : {200},
          body : {"unparsable", "array", "no_models", "null_models"},
          models : {<<>>}]
    \cup [exc : {"None"}, status : {200}, body : {"models"},
          models : ListsUpTo(ModelEntries, MaxModels)]

NoListing == [exc |-> "None", status |-> 0, body |-> "none", models |-> <<>>]

\* await client.get(...): the exception it raises
client_get(listing) ==
    IF listing.exc = "ConnectError" THEN Exception("ConnectError", "Connection refused")
    ELSE IF listing.exc # "None" THEN Exception(listing.exc, "timed out")
    ELSE NoException

\* response.raise_for_status(): raises for every status that is not 2xx
raise_for_status(listing) ==
    IF listing.status \in 200..299 THEN NoException
    ELSE [Exception("HTTPStatusError", "error response") EXCEPT
             !.status = listing.status]

\* response.json() and data.get("models", []): the exception raised before
\* the list of entries is at hand
response_json(listing) ==
    IF listing.body = "unparsable"
    THEN Exception("JSONDecodeError", "Expecting value: line 1 column 1 (char 0)")
    ELSE IF listing.body = "array"
    THEN Exception("AttributeError", "'list' object has no attribute 'get'")
    ELSE IF listing.body = "null_models"
    THEN Exception("TypeError", "'NoneType' object is not iterable")
    ELSE NoException

\* m.get("name", "").split(":")[0] for one entry: the exception it raises
entry_name(m) ==
    IF m.kind = "not_a_dict"
    THEN Exception("AttributeError", "'str' object has no attribute 'get'")
    ELSE IF m.kind = "null_name"
    THEN Exception("AttributeError", "'NoneType' object has no attribute 'split'")
    ELSE NoException

\* the first exception the list comprehension over the entries raises
RECURSIVE comprehension(_)
comprehension(models) ==
    IF models = <<>> THEN NoException
    ELSE IF Raised(entry_name(Head(models))) THEN entry_name(Head(models))
    ELSE comprehension(Tail(models))

Colons(s) == {i \in 1..Len(s) : SubSeq(s, i, i) = ":"}

\* s.split(":")[0]
split_0(s) ==
    IF Colons(s) = {} THEN s
    ELSE SubSeq(s, 1, (CHOOSE i \in Colons(s) : \A j \in Colons(s) : i <= j) - 1)

\* [m.get("name", "").split(":")[0] for m in data.get("models", [])]
available_models(models) == [i \in 1..Len(models) |-> split_0(models[i].name)]

\* [m.get("name", "") for m in data.get("models", [])]
available_models_full(models) == [i \in 1..Len(models) |-> models[i].name]

\* mutant: only the bare names are compared
model_listed_BareOnly(model, models) ==
    \E i \in 1..Len(models) : model = available_models(models)[i]

\* _OLLAMA_MODEL in available_models or _OLLAMA_MODEL in available_models_full
model_listed(model, models) ==
    \/ \E i \in 1..Len(models) : model = available_models(models)[i]
    \/ \E i \in 1..Len(models) : model = available_models_full(models)[i]

\* str(list) of a list of strings
RECURSIVE repr_items(_)
repr_items(names) ==
    IF names = <<>> THEN ""
    ELSE "'" \o Head(names) \o "'"
         \o (IF Len(names) > 1 THEN ", " ELSE "") \o repr_items(Tail(names))

repr(names) == "[" \o repr_items(names) \o "]"

\* mutant: a missing model leaves no error behind
not_found_Silent(model, models) == None

\* f"Model '{_OLLAMA_MODEL}' not found. Available: {available_models_full}"
not_found(model, models) ==
    "Model '" \o model \o "' not found. Available: "
    \o repr(available_models_full(models))

\* what the function holds when it reaches its return statement
HealthLocals(reachable, available, error, raised) ==
    [ollama_reachable |-> reachable, model_available |-> available,
     error |-> error, raised |-> raised]

\* mutant: without the catch-all clause
health_except_NoCatchAll(e, reachable) ==
    IF Catches("ConnectError", e)
    THEN HealthLocals(reachable, FALSE,
                      "Cannot connect to Ollama at " \o OLLAMA_HOST \o ": " \o e.detail,
                      NoException)
    ELSE IF Catches("HTTPStatusError", e)
    THEN HealthLocals(TRUE, FALSE,
                      "Ollama returned error: " \o ToString(e.status), NoException)
    ELSE HealthLocals(reachable, FALSE, None, e)

\* mutant: a response with an error status counts as not reachable
health_except_StatusUnreachable(e, reachable) ==
    IF Catches("ConnectError", e)
    THEN HealthLocals(reachable, FALSE,
                      "Cannot connect to Ollama at " \o OLLAMA_HOST \o ": " \o e.detail,
                      NoException)
    ELSE IF Catches("HTTPStatusError", e)
    THEN HealthLocals(reachable, FALSE,
                      "Ollama returned error: " \o ToString(e.status), NoException)
    ELSE IF Catches("Exception", e)
    THEN HealthLocals(reachable, FALSE, "Unexpected error: " \o e.detail, NoException)
    ELSE HealthLocals(reachable, FALSE, None, e)

\* mutant: the catch-all clause sets no error text
health_except_SilentCatchAll(e, reachable) ==
    IF Catches("ConnectError", e)
    THEN HealthLocals(reachable, FALSE,
                      "Cannot connect to Ollama at " \o OLLAMA_HOST \o ": " \o e.detail,
                      NoException)
    ELSE IF Catches("HTTPStatusError", e)
    THEN HealthLocals(TRUE, FALSE,
                      "Ollama returned error: " \o ToString(e.status), NoException)
    ELSE IF Catches("Exception", e)
    THEN HealthLocals(reachable, FALSE, None, NoException)
    ELSE HealthLocals(reachable, FALSE, None, e)

\* the except clauses of check_ollama_health, entered with exception e when
\* ollama_reachable holds `reachable`
health_except(e, reachable) ==
    IF Catches("ConnectError", e)
    THEN HealthLocals(reachable, FALSE,
                      "Cannot connect to Ollama at " \o OLLAMA_HOST \o ": " \o e.detail,
                      NoException)
    ELSE IF Catches("HTTPStatusError", e)
    THEN HealthLocals(TRUE, FALSE,
                      "Ollama returned error: " \o ToString(e.status), NoException)
    ELSE IF Catches("Exception", e)
    THEN HealthLocals(reachable, FALSE, "Unexpected error: " \o e.detail, NoException)
    ELSE HealthLocals(reachable, FALSE, None, e)

\* the body of the try block, statement by statement
health_try(model, listing) ==
    IF Raised(client_get(listing))
    THEN health_except(client_get(listing), FALSE)
    ELSE IF Raised(raise_for_status(listing))
    THEN health_except(raise_for_status(listing), FALSE)
    ELSE IF Raised(response_json(listing))
    THEN health_except(response_json(listing), TRUE)
    ELSE IF Raised(comprehension(listing.models))
    THEN health_except(comprehension(listing.models), TRUE)
    ELSE IF model_listed(model, listing.models)
    THEN HealthLocals(TRUE, TRUE, None, NoException)
    ELSE HealthLocals(TRUE, FALSE, not_found(model, listing.models), NoException)

NoSnapshot ==
    [ollama_host |-> "", ollama_reachable |-> FALSE, model |-> "",
     model_available |-> FALSE, error |-> None]

\* check_ollama_health(): the OllamaHealthStatus it returns and the exception
\* that leaves it
check_ollama_health(model, listing) ==
    LET l == health_try(model, listing)
    IN  [snapshot |-> IF Raised(l.raised) THEN NoSnapshot
                      ELSE [ollama_host |-> OLLAMA_HOST,
                            ollama_reachable |-> l.ollama_reachable,
                            model |-> model,
                            model_available |-> l.model_available,
                            error |-> l.error],
         raised |-> l.raised]

NoHealthResponse ==
    [status_code |-> 0, status |-> "", ollama_host |-> "", ollama_reachable |-> FALSE,
     model |-> "", model_available |-> FALSE, error |-> None]

\* mutant: one of the two checks is enough
health_EitherCheck(ollama_status) ==
    [status_code |-> 200,
     status |-> IF ollama_status.ollama_reachable \/ ollama_status.model_available
                THEN "healthy" ELSE "unhealthy",
     ollama_host |-> ollama_status.ollama_host,
     ollama_reachable |-> ollama_status.ollama_reachable,
     model |-> ollama_status.model,
     model_available |-> ollama_status.model_available,
     error |-> ollama_status.error]

\* the handler of GET /health once check_ollama_health returned ollama_status
health(ollama_status) ==
    [status_code |-> 200,
     status |-> IF ollama_status.ollama_reachable /\ ollama_status.model_available
                THEN "healthy" ELSE "unhealthy",
     ollama_host |-> ollama_status.ollama_host,
     ollama_reachable |-> ollama_status.ollama_reachable,
     model |-> ollama_status.model,
     model_available |-> ollama_status.model_available,
     error |-> ollama_status.error]

\* the values check_ollama_health is patched to return, as the tests of the
\* route do
PatchedSnapshots ==
    [ollama_host : {OLLAMA_HOST}, ollama_reachable : BOOLEAN, model : {OLLAMA_MODEL},
     model_available : BOOLEAN,
     error : {None, "Cannot connect to Ollama", "Model 'llama3' not found"}]

\* no GET /health was sent yet
NoProbe ==
    [pc |-> "idle", credentials |-> NoCredentials, listing |-> NoListing,
     patched |-> FALSE, snapshot |-> NoSnapshot, raised |-> NoException, response |-> NoHealthResponse]

InitHealth ==
    /\ ollama_model = OLLAMA_MODEL
    /\ probe = NoProbe

\* a client sends GET /health, with or without an Authorization header, and
\* the listing request will come to one of `listings`; the route declares no
\* dependency, so the header is never looked at
GetHealthFor(listings) ==
    /\ probe.pc = "idle"
    /\ \E c \in {NoCredentials} \cup {t \in Tokens : Defects(t) = 0 \/ ~t.wellformed},
          l \in listings :
          probe' = [NoProbe EXCEPT !.pc = "health", !.credentials = c, !.listing = l]
    /\ UNCHANGED <<ollama_model, limiter_vars, pipeline_vars, mcp_vars>>

GetHealth == GetHealthFor(ListingOutcomes)

\* a client sends GET /health while check_ollama_health is patched
GetHealthPatched ==
    /\ probe.pc = "idle"
    /\ \E st \in PatchedSnapshots :
          probe' = [NoProbe EXCEPT !.pc = "health", !.patched = TRUE, !.snapshot = st]
    /\ UNCHANGED <<ollama_model, limiter_vars, pipeline_vars, mcp_vars>>

\* the handler runs: await check_ollama_health(), then the HealthResponse; an
\* exception leaving the handler is answered 500 by the server
Health ==
    /\ probe.pc = "health"
    /\ LET r == IF probe.patched
                THEN [snapshot |-> probe.snapshot, raised |-> NoException]
                ELSE check_ollama_health(ollama_model, probe.listing)
       IN  probe' = [probe EXCEPT
                        !.pc = "done", !.snapshot = r.snapshot, !.raised = r.raised,
                        !.response = IF Raised(r.raised)
                                     THEN [NoHealthResponse EXCEPT !.status_code = 500]
                                     ELSE health(r.snapshot)]
    /\ UNCHANGED <<ollama_model, limiter_vars, pipeline_vars, mcp_vars>>

\* the answer was delivered; nothing of it is kept
HealthAnswered ==
    /\ probe.pc = "done"
    /\ probe' = NoProbe
    /\ UNCHANGED <<ollama_model, limiter_vars, pipeline_vars, mcp_vars>>

-----------------------------------------------------------------------------
(* The tool-call server (server.py) and the conversion step of the summarizer *)

\* the values of the environment variable TRANSFORMERBEE_HOST
Hosts == {None, "", "https://mock.com"}

\* the values of TRANSFORMERBEE_CLIENT_ID and of TRANSFORMERBEE_CLIENT_SECRET
ClientIds == {None, "", "my-client-id"}

ClientSecrets == {None, "", "my-client-secret"}

\* the members of EdifactFormatVersion that occur
FormatVersions == {"FV2504", "FV2510"}

\* mutant: only None counts as unset
FalsyNoneOnly(x) == x = None

\* "not x" for a string or None
Falsy(x) == x = None \/ x = ""

\* mutant: only an unset id or secret gives the unauthenticated client
create_client_IsNone(host, client_id, client_secret) ==
    IF client_id = None \/ client_secret = None
    THEN [variant |-> "UnauthenticatedTransformerBeeClient", host |-> host,
          oauth_client_id |-> None, oauth_client_secret |-> None,
          has_close_session |-> TRUE]
    ELSE [variant |-> "AuthenticatedTransformerBeeClient", host |-> host,
          oauth_client_id |-> client_id, oauth_client_secret |-> client_secret,
          has_close_session |-> TRUE]

\* create_client(host, client_id, client_secret): the client it constructs
create_client(host, client_id, client_secret) ==
    IF Falsy(client_id) \/ Falsy(client_secret)
    THEN [variant |-> "UnauthenticatedTransformerBeeClient", host |-> host,
          oauth_client_id |-> None, oauth_client_secret |-> None,
          has_close_session |-> TRUE]
    ELSE [variant |-> "AuthenticatedTransformerBeeClient", host |-> host,
          oauth_client_id |-> client_id, oauth_client_secret |-> client_secret,
          has_close_session |-> TRUE]

\* the create_client the tests put in its place: a DummyClient, which has no
\* session and no close_session
fake_create_client(host, client_id, client_secret) ==
    [variant |-> "DummyClient", host |-> host,
     oauth_client_id |-> None, oauth_client_secret |-> None,
     has_close_session |-> FALSE]

\* a message unit (Marktnachricht) number u with n transactions
Marktnachricht(u, n) ==
    [unh |-> ToString(u),
     transaktionen |-> [j \in 1..n |-> ToString(u) \o "." \o ToString(j)]]

\* the lists of message units convert_to_bo4e may return: up to MaxUnits
\* units of up to MaxTransactions transactions each
Marktnachrichten ==
    {[u \in 1..Len(counts) |-> Marktnachricht(u, counts[u])] :
        counts \in ListsUpTo(0..MaxTransactions, MaxUnits)}

\* what the upstream conversion comes to: an exception or a list of units
ConversionOutcomes ==
    [exc : {"ClientResponseError", "TimeoutError"}, marktnachrichten : {<<>>}]
    \cup [exc : {"None"}, marktnachrichten : Marktnachrichten]

\* await client.convert_to_bo4e(...) / convert_to_edifact(...): the exception
upstream_raises(outcome) ==
    IF outcome.exc = "ClientResponseError"
    THEN [Exception("ClientResponseError", "Bad Request") EXCEPT !.status = 400]
    ELSE IF outcome.exc # "None" THEN Exception(outcome.exc, "")
    ELSE NoException

\* mutant: the version of the caller is replaced by the current one
format_version_AlwaysCurrent(edifact_format_version, current) == current

\* "if not edifact_format_version: edifact_format_version =
\* get_current_edifact_format_version()": the version handed on
format_version(edifact_format_version, current) ==
    IF edifact_format_version = None THEN current ELSE edifact_format_version

\* the transactions of a unit inside m.model_dump_json(), joined by ",": each
\* a BOneyComb with its stammdaten and its transaktionsdaten
RECURSIVE join_transaktionen(_)
join_transaktionen(ts) ==
    IF ts = <<>> THEN ""
    ELSE "{\"stammdaten\":[],\"transaktionsdaten\":{\"id\":\"" \o Head(ts) \o "\"}}"
         \o (IF Len(ts) > 1 THEN "," ELSE "") \o join_transaktionen(Tail(ts))

\* the field transaktionen inside m.model_dump_json(): a JSON array
dump_transaktionen(ts) == "[" \o join_transaktionen(ts) \o "]"

\* m.model_dump_json(): the fields of a Marktnachricht in the order of their
\* declaration, under their field names
model_dump_json(m) ==
    "{\"stammdaten\":[],\"transaktionen\":" \o dump_transaktionen(m.transaktionen)
    \o ",\"nachrichtendaten\":{},\"unh\":\"" \o m.unh \o "\"}"

\* ",".join(m.model_dump_json() for m in marktnachrichten)
RECURSIVE join_units(_)
join_units(ms) ==
    IF ms = <<>> THEN ""
    ELSE model_dump_json(Head(ms))
         \o (IF Len(ms) > 1 THEN "," ELSE "") \o join_units(Tail(ms))

\* "[" + ",".join(m.model_dump_json() for m in marktnachrichten) + "]"
dump_units(ms) == "[" \o join_units(ms) \o "]"

\* what a tool leaves behind: its return value, the exception that left it
\* and what it did after the conversion returned, in order
ToolResult(result, raised, events) ==
    [result |-> result, raised |-> raised, events |-> events]

NotImplementedError(what, n) ==
    [Exception("NotImplementedError", "More than 1 " \o what \o " (got "
                   \o ToString(n) \o ") not support yet") EXCEPT !.num = n]

IndexError == Exception("IndexError", "list index out of range")

\* mutant: the first unit and its first transaction are taken, however many
\* there are
mcp_convert_edifact_to_bo4e_PicksFirst(marktnachrichten) ==
    IF Len(marktnachrichten) = 0 THEN ToolResult(None, IndexError, <<>>)
    ELSE IF Len(marktnachrichten[1].transaktionen) = 0
    THEN ToolResult(None, IndexError, <<"info: Successfully converted">>)
    ELSE ToolResult(marktnachrichten[1].transaktionen[1], NoException,
                    <<"info: Successfully converted">>)

\* mutant: an empty result is answered with nothing instead of an error
mcp_convert_edifact_to_bo4e_EmptyIsNone(marktnachrichten) ==
    IF Len(marktnachrichten) > 1
    THEN ToolResult(None, NotImplementedError("Marktnachricht", Len(marktnachrichten)),
                    <<>>)
    ELSE IF Len(marktnachrichten) = 0 THEN ToolResult(None, NoException, <<>>)
    ELSE IF Len(marktnachrichten[1].transaktionen) > 1
    THEN ToolResult(None,
                    NotImplementedError("transaction",
                                        Len(marktnachrichten[1].transaktionen)),
                    <<"info: Successfully converted">>)
    ELSE IF Len(marktnachrichten[1].transaktionen) = 0
    THEN ToolResult(None, NoException, <<"info: Successfully converted">>)
    ELSE ToolResult(marktnachrichten[1].transaktionen[1], NoException,
                    <<"info: Successfully converted">>)

\* mutant: the notification is sent after both counts were checked
mcp_convert_edifact_to_bo4e_NotifiesLast(marktnachrichten) ==
    IF Len(marktnachrichten) > 1
    THEN ToolResult(None, NotImplementedError("Marktnachricht", Len(marktnachrichten)),
                    <<>>)
    ELSE IF Len(marktnachrichten) = 0 THEN ToolResult(None, IndexError, <<>>)
    ELSE IF Len(marktnachrichten[1].transaktionen) > 1
    THEN ToolResult(None,
                    NotImplementedError("transaction",
                                        Len(marktnachrichten[1].transaktionen)),
                    <<>>)
    ELSE IF Len(marktnachrichten[1].transaktionen) = 0
    THEN ToolResult(None, IndexError, <<>>)
    ELSE ToolResult(marktnachrichten[1].transaktionen[1], NoException,
                    <<"info: Successfully converted">>)

\* the tool convert_edifact_to_bo4e of server.py, from the statement after the
\* conversion returned `marktnachrichten`
mcp_convert_edifact_to_bo4e(marktnachrichten) ==
    IF Len(marktnachrichten) > 1
    THEN ToolResult(None, NotImplementedError("Marktnachricht", Len(marktnachrichten)),
                    <<>>)
    ELSE IF Len(marktnachrichten) = 0 THEN ToolResult(None, IndexError, <<>>)
    ELSE IF Len(marktnachrichten[1].transaktionen) > 1
    THEN ToolResult(None,
                    NotImplementedError("transaction",
                                        Len(marktnachrichten[1].transaktionen)),
                    <<"info: Successfully converted">>)
    ELSE IF Len(marktnachrichten[1].transaktionen) = 0
    THEN ToolResult(None, IndexError, <<"info: Successfully converted">>)
    ELSE ToolResult(marktnachrichten[1].transaktionen[1], NoException,
                    <<"info: Successfully converted">>)

\* the tools of the server and the functions of the summarizer
Tools ==
    {"convert_edifact_to_bo4e", "convert_bo4e_to_edifact", "summarize_edifact_message"}

SummarizerFunctions ==
    {"summarizer.convert_edifact_to_bo4e", "summarize_edifact", "summarize_bo4e"}

\* the kinds of call that convert and then send a request to the LLM
Summarizing == {"summarize_edifact_message", "summarize_edifact"}

NoConversion == [exc |-> "None", marktnachrichten |-> <<>>]

\* no call in flight.  client: the index in bee_clients of the client the tool
\* took from the lifespan context; lifespan: the lifespan it was served in;
\* version_sent and current: the version handed to the upstream conversion
\* and the value the resolver returned, None when it was not asked; llm: what
\* the request to /api/generate came to; summary: the text summarize_bo4e
\* returned; error: the exception the except clause was entered with
NoCallInFlight ==
    [pc |-> "idle", kind |-> None, edifact_format_version |-> None, client |-> 0,
     lifespan |-> 0, current |-> None, version_sent |-> None,
     conversion |-> NoConversion, converted |-> FALSE, bo4e_json |-> "",
     generate |-> <<>>, llm |-> None, summary |-> None, error |-> NoException,
     events |-> <<>>, result |-> None, raised |-> NoException]

\* the positions of a call that has not ended: called and not yet run, or
\* suspended in one of its awaits
Pending ==
    {"convert", "converting", "info_converted", "generate", "generating",
     "info_summary", "info_error"}

\* the environment of the server process and whether create_client is
\* replaced, as the tests replace it
Environments ==
    [host : Hosts, client_id : ClientIds, client_secret : ClientSecrets,
     injected : {FALSE}]
    \cup {[host |-> "https://mock.com", client_id |-> None, client_secret |-> None,
            injected |-> TRUE]}

\* the server before its first start.  environ: what os.environ holds in this
\* process; context: the index in bee_clients of the client in the AppContext
ServerStopped ==
    [pc |-> "stopped", lifespan |-> 0, context |-> 0, raised |-> NoException,
     body_error |-> FALSE,
     environ |-> [host |-> None, client_id |-> None, client_secret |-> None,
                  injected |-> FALSE]]

InitMcp ==
    /\ server = ServerStopped
    /\ bee_clients = <<>>
    /\ call = NoCallInFlight

-----------------------------------------------------------------------------
(* Requests to POST /summarize and direct calls of summarize_edifact *)

Slots == {1, 2}

\* the first sentence of _SYSTEM_PROMPT stands for the whole text
SYSTEM_PROMPT ==
    "Du bist ein Experte fuer BO4E (Business Objects for Energy) im deutschen Energiemarkt."

\* jwks: the signing-key client verify_token used for the request;
\* pc: where the request stands; stages: the operations that have returned
\* or raised, in order, and outcomes: how each ended; failed: the stage that
\* raised; raised:
\* the exception that left the handler (or the called function); admitted_at:
\* the timestamp appended for it; generate: the bodies posted to /api/generate
Idle ==
    [pc |-> "idle", kind |-> "none", credentials |-> NoCredentials, edifact |-> "",
     nargs |-> 0, payload |-> [sub |-> None], user_id |-> None, admitted_at |-> -1,
     stages |-> <<>>, outcomes |-> <<>>, failed |-> None, raised |-> NoException,
     summary |-> "", response |-> NoResponse, bo4e_json |-> "", generate |-> <<>>,
     jwks |-> None]

\* the n-th PyJWKClient object constructed in this process
PyJWKClient(n) == "PyJWKClient#" \o ToString(n)

\* mutant: a client is constructed and stored whether or not one is there
get_jwks_client_Unchecked(client, created) ==
    [client |-> PyJWKClient(created + 1), created |-> created + 1]

\* get_jwks_client(): the client it returns and leaves in the global, and the
\* number of clients constructed so far
get_jwks_client(client, created) ==
    IF client = None
    THEN [client |-> PyJWKClient(created + 1), created |-> created + 1]
    ELSE [client |-> client, created |-> created]

InitPipeline ==
    /\ req = [r \in Slots |-> Idle]
    /\ posted = 0
    /\ jwks_client = None
    /\ jwks_created = 0

\* mutant: the check reads the record as it was before the latest call, as a
\* check would that overlapped that call
StoreBeforeLatestCall ==
    IF last.user = None THEN rate_limit_store
    ELSE StoreSet(rate_limit_store, last.user, last.before)

\* the record a check reads: check_rate_limit runs on the event loop without
\* an await, so it reads what the latest completed call left
StoreAtCheck == rate_limit_store

\* the stages whose exceptions pass through the try/except of the handler
InsideTry == {"summarize_edifact", "convert_edifact_to_bo4e", "summarize_bo4e"}

\* exception e, raised in stage, leaves the handler (through its except
\* clauses when raised inside the try) or the called function
Propagate(t, stage, e) ==
    LET out == IF t.kind = "rest" /\ stage \in InsideTry THEN summarize_except(e)
               ELSE e
    IN  [t EXCEPT !.pc = "done", !.failed = stage, !.raised = out,
                  !.response = IF t.kind = "rest" THEN Response(out, "")
                               ELSE NoResponse]

\* mutant: the exception is swallowed and the next statement runs
ThenSwallowed(t, stage, e, continued) == continued

\* one statement after another: when the stage raised e nothing after it
\* runs, otherwise the request continues as `continued`
Then(t, stage, e, continued) ==
    IF Raised(e) THEN Propagate(t, stage, e) ELSE continued

\* the request enters a stage, which raises e or completes
Enter(t, stage, e) ==
    [t EXCEPT !.stages = Append(@, stage),
              !.outcomes = Append(@, IF Raised(e) THEN "raised" ELSE "ok")]

\* a client sends POST /summarize
Post(r) ==
    /\ req[r].pc = "idle"
    /\ posted < MaxRequests
    /\ \E c \in Tokens \cup {NoCredentials}, e \in Edifacts :
          req' = [req EXCEPT ![r] = [Idle EXCEPT !.pc = "auth", !.kind = "rest",
                                                 !.credentials = c, !.edifact = e,
                                                 !.nargs = HandlerArguments]]
    /\ posted' = posted + 1
    /\ UNCHANGED <<health_vars, mcp_vars, limiter_vars, jwks_client, jwks_created,
                   transformerbee, ollama>>

\* the dependencies of the route: HTTPBearer, then verify_token, which gets
\* the signing-key client through get_jwks_client.  verify_token is a
\* coroutine that awaits nothing, so it runs on the event loop in one piece
Authenticate(r) ==
    /\ req[r].pc = "auth"
    /\ IF Raised(security(req[r].credentials))
       THEN /\ req' = [req EXCEPT ![r] =
                          Propagate(@, "security", security(req[r].credentials))]
            /\ UNCHANGED <<jwks_client, jwks_created>>
       ELSE LET v == verify_token(req[r].credentials)
                j == get_jwks_client(jwks_client, jwks_created)
                t == [Enter(req[r], "verify_token", v.raised) EXCEPT
                         !.jwks = j.client]
            IN  /\ jwks_client' = j.client
                /\ jwks_created' = j.created
                /\ req' = [req EXCEPT ![r] =
                              Then(t, "verify_token", v.raised,
                                   [t EXCEPT !.pc = "limit", !.payload = v.payload])]
    /\ UNCHANGED <<health_vars, mcp_vars, limiter_vars, posted, transformerbee,
                   ollama>>

\* the handler starts: user_id from the payload, then check_rate_limit
CheckRateLimit(r) ==
    /\ req[r].pc = "limit"
    /\ LET user_id == UserId(req[r].payload)
           res == check_rate_limit(StoreAtCheck, user_id, now, rate_limit, rate_window)
           t == [Enter(req[r], "check_rate_limit", res.raised)
                    EXCEPT !.user_id = user_id]
       IN  /\ Limiter(user_id, res)
           /\ req' = [req EXCEPT ![r] =
                         Then(t, "check_rate_limit", res.raised,
                              [t EXCEPT !.pc = "call", !.admitted_at = now])]
    /\ UNCHANGED <<health_vars, mcp_vars, rate_limit, rate_window, users, now,
                   horizon, posted, jwks_client,
                   jwks_created, transformerbee, ollama>>

\* the handler evaluates summarize_edifact(request.edifact); a direct caller
\* evaluates summarize_edifact with the arguments it chose
CallSummarizeEdifact(r) ==
    /\ req[r].pc = "call"
    /\ LET e == BindArguments(req[r].nargs)
           t == Enter(req[r], "summarize_edifact", e)
       IN  req' = [req EXCEPT ![r] =
                      Then(t, "summarize_edifact", e, [t EXCEPT !.pc = "convert"])]
    /\ UNCHANGED <<health_vars, mcp_vars, limiter_vars, posted, jwks_client,
                   jwks_created,
                   transformerbee, ollama>>

\* summarize_edifact: bo4e_json = await convert_edifact_to_bo4e(edifact,
\* auth_token) returns or raises; with the JSON at hand summarize_bo4e runs up
\* to its await of client.post: the body is posted and the call waits for the
\* answer
ConvertEdifactToBo4e(r) ==
    /\ req[r].pc = "convert"
    /\ LET e == convert_edifact_to_bo4e(transformerbee)
           t == Enter(req[r], "convert_edifact_to_bo4e", e)
           body == [model |-> OLLAMA_MODEL, system |-> SYSTEM_PROMPT,
                    prompt |-> Bo4eJson(t.edifact), stream |-> FALSE]
       IN  req' = [req EXCEPT ![r] =
                      Then(t, "convert_edifact_to_bo4e", e,
                           [t EXCEPT !.pc = "generate",
                                     !.bo4e_json = Bo4eJson(t.edifact),
                                     !.generate = Append(@, body)])]
    /\ UNCHANGED <<health_vars, mcp_vars, limiter_vars, posted, jwks_client,
                   jwks_created,
                   transformerbee, ollama>>

\* the answer to the POST of summarize_bo4e arrives: summarize_bo4e returns
\* the summary or raises, summarize_edifact hands it on ("return await
\* summarize_bo4e(bo4e_json, timeout)"), and the value returned reaches the
\* handler, which answers 200 with it
SummarizeBo4e(r) ==
    /\ req[r].pc = "generate"
    /\ LET e == summarize_bo4e(ollama)
           t == Enter(req[r], "summarize_bo4e", e)
       IN  \E text \in Summaries :
              req' = [req EXCEPT ![r] =
                         Then(t, "summarize_bo4e", e,
                              [t EXCEPT !.pc = "done", !.summary = text,
                                        !.response =
                                            IF t.kind = "rest"
                                            THEN Response(NoException, text)
                                            ELSE NoResponse])]
    /\ UNCHANGED <<health_vars, mcp_vars, limiter_vars, posted, jwks_client,
                   jwks_created,
                   transformerbee, ollama>>

\* another caller awaits summarize_edifact(edifact) or
\* summarize_edifact(edifact, auth_token)
DirectCall(r) ==
    /\ req[r].pc = "idle"
    /\ posted < MaxRequests
    /\ \E e \in Edifacts, n \in {1, 2} :
          req' = [req EXCEPT ![r] = [Idle EXCEPT !.pc = "call", !.kind = "direct",
                                                 !.edifact = e, !.nargs = n]]
    /\ posted' = posted + 1
    /\ UNCHANGED <<health_vars, mcp_vars, limiter_vars, jwks_client, jwks_created,
                   transformerbee, ollama>>

\* the answer was delivered: the slot is free for the next request
Recycle(r) ==
    /\ req[r].pc = "done"
    /\ req' = [req EXCEPT ![r] = Idle]
    /\ UNCHANGED <<health_vars, mcp_vars, limiter_vars, posted, jwks_client,
                   jwks_created,
                   transformerbee, ollama>>

\* the clock advances
Tick ==
    /\ now < horizon
    /\ now' = now + 1
    /\ UNCHANGED <<health_vars, mcp_vars, rate_limit, rate_window, users, horizon,
                   rate_limit_store,
                   admitted, last, streak, pipeline_vars>>

Init ==
    /\ rate_limit \in {1, 2}
    /\ rate_window = 2
    /\ users = Identities
    /\ horizon = MaxClock
    /\ now = 0
    /\ rate_limit_store = <<>>
    /\ admitted = [u \in Identities |-> <<>>]
    /\ last = NoCall
    /\ streak = [u \in Identities |-> NoStreak]
    /\ InitPipeline
    /\ InitHealth
    /\ InitMcp
    /\ \/ transformerbee = "ok" /\ ollama \in OllamaBehaviours
       \/ transformerbee \in BeeBehaviours \ {"ok"} /\ ollama = "ok"

Next ==
    \/ Tick
    \/ \E r \in Slots :
          \/ Post(r)
          \/ Authenticate(r)
          \/ CheckRateLimit(r)
          \/ CallSummarizeEdifact(r)
          \/ ConvertEdifactToBo4e(r)
          \/ SummarizeBo4e(r)
          \/ DirectCall(r)
          \/ Recycle(r)

Spec == Init /\ [][Next]_vars

-----------------------------------------------------------------------------
(* GET /health on its own: the gateway serves nothing else in these runs *)

\* the limiter and the pipeline of POST /summarize at rest
GatewayAtRest ==
    /\ rate_limit = DEFAULT_RATE_LIMIT
    /\ rate_window = DEFAULT_RATE_WINDOW_SECONDS
    /\ users = {}
    /\ horizon = 0
    /\ now = 0
    /\ rate_limit_store = <<>>
    /\ admitted = [u \in Identities |-> <<>>]
    /\ last = NoCall
    /\ streak = [u \in Identities |-> NoStreak]
    /\ InitPipeline
    /\ transformerbee = "ok"
    /\ ollama = "ok"

InitHealthProbe ==
    /\ ollama_model \in ConfiguredModels
    /\ probe = NoProbe
    /\ GatewayAtRest
    /\ InitMcp

NextHealth ==
    \/ GetHealth
    \/ GetHealthPatched
    \/ Health
    \/ HealthAnswered

SpecHealth == InitHealthProbe /\ [][NextHealth]_vars

-----------------------------------------------------------------------------
(* The gateway serving both routes: POST /summarize requests one after the   *)
(* other, and GET /health requests between and beside them                   *)

\* the outcomes of a listing request in which no model is listed
EmptyListings == {l \in ListingOutcomes : l.models = <<>>}

InitGateway ==
    /\ Init
    /\ transformerbee = "ok"
    /\ ollama = "ok"

NextGateway ==
    \/ Tick
    \/ Post(1)
    \/ Authenticate(1)
    \/ CheckRateLimit(1)
    \/ CallSummarizeEdifact(1)
    \/ Recycle(1)
    \/ GetHealthFor(EmptyListings)
    \/ Health
    \/ HealthAnswered

SpecGateway == InitGateway /\ [][NextGateway]_vars

-----------------------------------------------------------------------------
(* The tool-call server through its lifespans, and calls of its tools and of *)
(* the summarizer's functions                                                *)

\* a client as bee_clients records it: the lifespan that constructed it and
\* how often its close_session was awaited
Constructed(client, lifespan) ==
    [client |-> client, lifespan |-> lifespan, close_session_calls |-> 0]

\* mutant: without try/finally the session is closed only after a body that
\* ended normally
lifespan_exit_NoFinally(entry, body_error) ==
    IF entry.client.has_close_session /\ ~body_error
    THEN [entry EXCEPT !.close_session_calls = @ + 1]
    ELSE entry

\* the finally clause of app_lifespan: "if hasattr(transformerbee_client,
\* "close_session"): await transformerbee_client.close_session()"
lifespan_exit(entry, body_error) ==
    IF entry.client.has_close_session
    THEN [entry EXCEPT !.close_session_calls = @ + 1]
    ELSE entry

\* the server starts: app_lifespan runs up to its yield
Startup ==
    /\ server.pc \in {"stopped", "failed", "ended"}
    /\ server.lifespan < MaxLifespans
    /\ call.kind \notin SummarizerFunctions
    /\ LET host == server.environ.host
           client_id == server.environ.client_id
           client_secret == server.environ.client_secret
           injected == server.environ.injected
       IN IF Falsy(host)
          THEN /\ server' = [server EXCEPT
                                !.pc = "failed", !.lifespan = server.lifespan + 1,
                                !.raised = Exception("ValueError",
                                    "Environment variable 'TRANSFORMERBEE_HOST' not set")]
               /\ UNCHANGED bee_clients
          ELSE /\ bee_clients' =
                     Append(bee_clients,
                            Constructed(IF injected
                                        THEN fake_create_client(host, client_id,
                                                                client_secret)
                                        ELSE create_client(host, client_id,
                                                           client_secret),
                                        server.lifespan + 1))
               /\ server' = [server EXCEPT
                                !.pc = "running", !.lifespan = server.lifespan + 1,
                                !.context = Len(bee_clients) + 1,
                                !.raised = NoException, !.body_error = FALSE]
    /\ UNCHANGED <<call, limiter_vars, pipeline_vars, health_vars>>

\* the body of the server ends, normally or with an error: the calls in flight
\* are cancelled with the server's task group, then the finally clause runs
Shutdown ==
    /\ server.pc = "running"
    /\ \E body_error \in BOOLEAN :
          /\ server' = [server EXCEPT !.pc = "ended", !.context = 0,
                                      !.body_error = body_error]
          /\ bee_clients' = [bee_clients EXCEPT
                                ![server.context] = lifespan_exit(@, body_error)]
    /\ call' = IF call.kind \in Tools /\ call.pc \in Pending
               THEN [call EXCEPT !.pc = "cancelled"]
               ELSE call
    /\ UNCHANGED <<limiter_vars, pipeline_vars, health_vars>>

\* a tool call arrives; the tool takes the client from the lifespan context
CallTool ==
    /\ server.pc = "running"
    /\ call.pc = "idle"
    /\ \E tool \in Tools, v \in FormatVersions \cup {None} :
          call' = [NoCallInFlight EXCEPT
                      !.pc = "convert", !.kind = tool, !.edifact_format_version = v,
                      !.client = server.context, !.lifespan = server.lifespan]
    /\ UNCHANGED <<server, bee_clients, limiter_vars, pipeline_vars, health_vars>>

\* a caller awaits summarizer.convert_edifact_to_bo4e(edifact, auth_token) or
\* (edifact, auth_token, edifact_format_version), or summarize_edifact(edifact,
\* auth_token), which passes no version on, or summarize_bo4e(bo4e_json),
\* which converts nothing; this happens in the process of the REST gateway,
\* where no tool-call server is started
CallFunction ==
    /\ call.pc = "idle"
    /\ server.pc = "stopped"
    /\ \E f \in SummarizerFunctions, v \in FormatVersions \cup {None},
          e \in Edifacts :
          /\ f \in {"summarize_edifact", "summarize_bo4e"} => v = None
          /\ f # "summarize_bo4e" => e = ""
          /\ call' = [NoCallInFlight EXCEPT
                         !.pc = IF f = "summarize_bo4e" THEN "generate" ELSE "convert",
                         !.kind = f, !.edifact_format_version = v,
                         !.bo4e_json = IF f = "summarize_bo4e" THEN Bo4eJson(e)
                                       ELSE ""]
    /\ UNCHANGED <<server, bee_clients, limiter_vars, pipeline_vars, health_vars>>

\* mutant: the error is logged and re-raised without a notification
summarize_edifact_message_except_Quiet(e) ==
    [raised |-> e, events |-> <<"log: exception">>]

\* the except clause of summarize_edifact_message: "except Exception as e:
\* _logger.exception(...); await ctx.info(f"Error generating summary: {e}");
\* raise"
summarize_edifact_message_except(e) ==
    [raised |-> e,
     events |-> <<"log: exception", "info: Error generating summary: " \o e.detail>>]

\* mutant: the tool answers a failed conversion with an error of its own
convert_except_Replaced(tool, e) ==
    [raised |-> Exception("RuntimeError", "conversion failed"),
     logged |-> <<"log: exception">>]

\* the except clauses around the conversion in convert_edifact_to_bo4e
\* ("except ClientResponseError as cre: warning, exception, raise" and "except
\* Exception: exception, raise") and in convert_bo4e_to_edifact ("except
\* Exception: exception, raise"): what they log and the exception that leaves
convert_except(tool, e) ==
    [raised |-> e,
     logged |-> IF tool = "convert_edifact_to_bo4e" /\ Catches("ClientResponseError", e)
                THEN <<"log: warning", "log: exception">>
                ELSE <<"log: exception">>]

\* summarize_bo4e up to its await of client.post: the request to
\* /api/generate leaves with the BO4E JSON of the call as its prompt
post_generate(c) ==
    [c EXCEPT !.pc = "generating",
              !.generate = Append(@, [model |-> OLLAMA_MODEL, system |-> SYSTEM_PROMPT,
                                      prompt |-> c.bo4e_json, stream |-> FALSE]),
              !.events = Append(@, "generate")]

\* the except clause of summarize_edifact_message entered with e, up to its
\* await of ctx.info: the error is logged, and the call waits in the
\* notification with e at hand
enter_except(c, e) ==
    LET x == summarize_edifact_message_except(e)
    IN  IF Len(x.events) > 1
        THEN [c EXCEPT !.pc = "info_error", !.error = e,
                       !.events = Append(@, Head(x.events))]
        ELSE [c EXCEPT !.pc = "done", !.raised = x.raised, !.events = @ \o x.events]

\* the call c after its conversion came to outcome o, up to its next await
\* (ctx.info in a tool, the POST to the LLM in summarize_edifact) or to its end
after_conversion(c, o) ==
    LET e == upstream_raises(o)
        ms == o.marktnachrichten
    IN  IF c.kind = "convert_edifact_to_bo4e"
        THEN IF Raised(e)
             THEN [c EXCEPT !.pc = "done", !.raised = convert_except(c.kind, e).raised,
                            !.events = @ \o convert_except(c.kind, e).logged]
             ELSE LET r == mcp_convert_edifact_to_bo4e(ms)
                  IN  IF r.events = <<>>
                      THEN [c EXCEPT !.pc = "done", !.converted = TRUE,
                                     !.result = r.result, !.raised = r.raised]
                      ELSE [c EXCEPT !.pc = "info_converted", !.converted = TRUE]
        ELSE IF c.kind = "convert_bo4e_to_edifact"
        THEN IF Raised(e)
             THEN [c EXCEPT !.pc = "done", !.raised = convert_except(c.kind, e).raised,
                            !.events = @ \o convert_except(c.kind, e).logged]
             ELSE [c EXCEPT !.pc = "info_converted", !.converted = TRUE]
        ELSE IF c.kind = "summarize_edifact_message"
        THEN IF Raised(e)
             THEN enter_except(c, e)
             ELSE [c EXCEPT !.pc = "info_converted", !.converted = TRUE,
                            !.bo4e_json = dump_units(ms)]
        ELSE IF c.kind = "summarize_edifact"
        THEN IF Raised(e) THEN [c EXCEPT !.pc = "done", !.raised = e]
             ELSE post_generate([c EXCEPT !.converted = TRUE,
                                          !.bo4e_json = dump_units(ms)])
        ELSE IF Raised(e) THEN [c EXCEPT !.pc = "done", !.raised = e]
        ELSE [c EXCEPT !.pc = "done", !.converted = TRUE, !.result = dump_units(ms)]

\* the tool c after the ctx.info it waited in returned, up to its next await
\* (the POST to the LLM) or to its end
after_notification(c) ==
    LET ms == c.conversion.marktnachrichten
        n == ToString(Len(ms))
    IN  IF c.pc = "info_converted" /\ c.kind = "convert_edifact_to_bo4e"
        THEN LET r == mcp_convert_edifact_to_bo4e(ms)
             IN  [c EXCEPT !.pc = "done", !.result = r.result, !.raised = r.raised,
                           !.events = @ \o r.events]
        ELSE IF c.pc = "info_converted" /\ c.kind = "convert_bo4e_to_edifact"
        THEN [c EXCEPT !.pc = "done", !.result = "dummy_edifact_message",
                       !.events = Append(@, "info: Successfully converted BO4E "
                                            \o "to EDIFACT with format version "
                                            \o c.version_sent)]
        ELSE IF c.pc = "info_converted"
        THEN post_generate([c EXCEPT !.events = Append(@, "info: Converted " \o n
                                                          \o " Marktnachricht(en) to BO4E")])
        ELSE IF c.pc = "info_summary"
        THEN [c EXCEPT !.pc = "done", !.result = c.summary,
                       !.events = Append(@, "info: Successfully generated summary")]
        ELSE LET x == summarize_edifact_message_except(c.error)
             IN  [c EXCEPT !.pc = "done", !.raised = x.raised,
                           !.events = @ \o Tail(x.events)]

\* the call c after its request to the LLM came to llm, with text as the
\* "response" of a good answer, up to its next await (ctx.info in the tool) or
\* to its end
after_generation(c, llm, text) ==
    LET e == summarize_bo4e(llm)
        c1 == [c EXCEPT !.llm = llm]
    IN  IF c.kind = "summarize_edifact_message"
        THEN IF Raised(e) THEN enter_except(c1, e)
             ELSE [c1 EXCEPT !.pc = "info_summary", !.summary = text]
        ELSE IF Raised(e) THEN [c1 EXCEPT !.pc = "done", !.raised = e]
        ELSE [c1 EXCEPT !.pc = "done", !.result = text]

\* the call starts to run: it resolves the format version and awaits the
\* upstream conversion, through the client of the lifespan context in a tool,
\* over its own HTTP session in the summarizer
ToolConvert ==
    /\ call.pc = "convert"
    /\ \E current \in FormatVersions :
          call' = [call EXCEPT
                      !.pc = "converting",
                      !.current = IF call.edifact_format_version = None
                                  THEN current ELSE None,
                      !.version_sent =
                          format_version(call.edifact_format_version, current),
                      !.events = Append(@, IF call.kind = "convert_bo4e_to_edifact"
                                           THEN "convert_to_edifact"
                                           ELSE "convert_to_bo4e")]
    /\ UNCHANGED <<server, bee_clients, limiter_vars, pipeline_vars, health_vars>>

\* the upstream conversion returns or raises, and the call runs on to its
\* next await or to its end
ToolConverted ==
    /\ call.pc = "converting"
    /\ \E o \in ConversionOutcomes :
          /\ call.kind \in SummarizerFunctions => o.exc # "TimeoutError"
          /\ call.kind \in SummarizerFunctions =>
                 convert_edifact_to_bo4e(IF o.exc = "None" THEN "ok" ELSE o.exc)
                     = upstream_raises(o)
          /\ call.kind = "convert_bo4e_to_edifact" => o.marktnachrichten = <<>>
          /\ call' = after_conversion([call EXCEPT !.conversion = o], o)
    /\ UNCHANGED <<server, bee_clients, limiter_vars, pipeline_vars, health_vars>>

\* the ctx.info the tool waits in returns: the notification is delivered, and
\* the tool runs on to its next await or to its end
ToolNotified ==
    /\ call.pc \in {"info_converted", "info_summary", "info_error"}
    /\ call' = after_notification(call)
    /\ UNCHANGED <<server, bee_clients, limiter_vars, pipeline_vars, health_vars>>

\* a direct call of summarize_bo4e(bo4e_json) starts to run: it awaits its
\* POST to /api/generate
ToolGenerate ==
    /\ call.pc = "generate"
    /\ call' = post_generate(call)
    /\ UNCHANGED <<server, bee_clients, limiter_vars, pipeline_vars, health_vars>>

\* the request to the LLM returns or raises, and the call runs on to its next
\* await or to its end
ToolGenerated ==
    /\ call.pc = "generating"
    /\ \E llm \in OllamaBehaviours, text \in Summaries :
          call' = after_generation(call, llm, text)
    /\ UNCHANGED <<server, bee_clients, limiter_vars, pipeline_vars, health_vars>>

\* the caller has its answer
CallAnswered ==
    /\ call.pc \in {"done", "cancelled"}
    /\ call' = NoCallInFlight
    /\ UNCHANGED <<server, bee_clients, limiter_vars, pipeline_vars, health_vars>>

InitTools ==
    /\ server \in {[ServerStopped EXCEPT !.environ = e] : e \in Environments}
    /\ bee_clients = <<>>
    /\ call = NoCallInFlight
    /\ GatewayAtRest
    /\ InitHealth

NextTools ==
    \/ Startup
    \/ Shutdown
    \/ CallTool
    \/ CallFunction
    \/ ToolConvert
    \/ ToolConverted
    \/ ToolNotified
    \/ ToolGenerate
    \/ ToolGenerated
    \/ CallAnswered

SpecTools == InitTools /\ [][NextTools]_vars

-----------------------------------------------------------------------------
(* The limiter called directly: any identity, at non-decreasing times *)

\* the configurations and callers a run starts from: small limits and windows
\* for two identities, and the defaults for one identity in one burst
Scenarios ==
    [limit : {1, 2}, window : {2, 3}, users : {Identities},
     horizon : {MaxTime}]
    \cup {[limit |-> DEFAULT_RATE_LIMIT, window |-> DEFAULT_RATE_WINDOW_SECONDS,
           users |-> {"user123"}, horizon |-> MaxBurstTime]}

InitLimiter ==
    /\ \E s \in Scenarios :
          /\ rate_limit = s.limit
          /\ rate_window = s.window
          /\ users = s.users
          /\ horizon = s.horizon
    /\ now = 0
    /\ rate_limit_store = <<>>
    /\ admitted = [u \in Identities |-> <<>>]
    /\ last = NoCall
    /\ streak = [u \in Identities |-> NoStreak]
    /\ InitPipeline
    /\ InitHealth
    /\ InitMcp
    /\ transformerbee = "ok"
    /\ ollama = "ok"

CallCheckRateLimit(user_id) ==
    /\ user_id \in users
    /\ streak[user_id].rejects < MaxExtraCalls
    /\ Limiter(user_id, check_rate_limit(rate_limit_store, user_id, now,
                                         rate_limit, rate_window))
    /\ UNCHANGED <<health_vars, mcp_vars, rate_limit, rate_window, users, horizon,
                   now, pipeline_vars>>

NextLimiter ==
    \/ Tick
    \/ \E u \in Identities : CallCheckRateLimit(u)

SpecLimiter == InitLimiter /\ [][NextLimiter]_vars

-----------------------------------------------------------------------------
(* Properties of the rate limiter *)

Range(seq) == {seq[i] : i \in 1..Len(seq)}

Oldest(seq) == CHOOSE t \in Range(seq) : \A x \in Range(seq) : t <= x

\* the entries of seq with a timestamp in (T - rate_window, T]
WindowCount(seq, T) ==
    Cardinality({i \in 1..Len(seq) : seq[i] > T - rate_window /\ seq[i] <= T})

\* C1: for every identity and every time T, at most rate_limit requests were
\* admitted with a timestamp in (T - rate_window, T], and the stored list of an
\* identity never holds more than rate_limit entries.
C1_SlidingWindowBound ==
    \A u \in Identities :
        /\ \A T \in 0..(horizon + rate_window) :
               WindowCount(admitted[u], T) <= rate_limit
        /\ Len(StoreGet(rate_limit_store, u)) <= rate_limit

\* an identity whose window is full right now although it was admitted more
\* than rate_limit times in all, and whose latest call was rejected
C1_Witness ==
    \E u \in Identities :
        /\ Len(admitted[u]) > rate_limit
        /\ WindowCount(admitted[u], now) = rate_limit
        /\ last.user = u /\ ~last.ok

\* C2: counting the calls of an identity from an empty record, a call made
\* less than rate_window after the first one succeeds when it is call number
\* 1..rate_limit and fails with 429 "Rate limit exceeded" when it is call
\* number rate_limit + 1.
C2_FirstLimitCallsSucceed ==
    last.user # None =>
        LET s == streak[last.user]
        IN  last.t - s.first < rate_window =>
               /\ s.n <= rate_limit => last.ok
               /\ s.n = rate_limit + 1 =>
                      /\ ~last.ok
                      /\ last.raised.kind = "HTTPException"
                      /\ last.raised.status = 429
                      /\ last.raised.detail =
                             "Rate limit exceeded. Max {} requests per minute."

\* with the defaults: ten calls admitted, the eleventh rejected
C2_Witness ==
    /\ rate_limit = DEFAULT_RATE_LIMIT
    /\ rate_window = DEFAULT_RATE_WINDOW_SECONDS
    /\ last.user # None
    /\ streak[last.user].n = DEFAULT_RATE_LIMIT + 1
    /\ Len(admitted[last.user]) = DEFAULT_RATE_LIMIT
    /\ ~last.ok

\* C3: a call made when the record is full and its oldest entry is at least
\* rate_window old succeeds, also exactly rate_window after the oldest entry
\* and whatever number of rejected calls came before.
C3_WindowSlides ==
    (/\ last.user # None
     /\ last.before # <<>>
     /\ Len(last.before) = rate_limit
     /\ last.t >= Oldest(last.before) + rate_window) => last.ok

\* admitted exactly rate_window after the oldest entry of a full record,
\* right after rejected calls
C3_Witness ==
    /\ last.user # None
    /\ last.before # <<>>
    /\ Len(last.before) = rate_limit
    /\ last.t = Oldest(last.before) + rate_window
    /\ last.rejects_before > 0
    /\ last.ok

\* C4: a rejected call appends nothing: the list it leaves holds only entries
\* that were there before, and after any number of consecutive rejections the
\* stored list is no longer than before the first of them.
C4_RejectionRecordsNothing ==
    /\ (last.user # None /\ ~last.ok) =>
           /\ Len(last.after) <= Len(last.before)
           /\ \A i \in 1..Len(last.after) :
                  \E j \in 1..Len(last.before) :
                     /\ last.after[i] = last.before[j]
                     /\ i <= j
    /\ \A u \in Identities :
           streak[u].rejects > 0 =>
               Len(StoreGet(rate_limit_store, u)) <= streak[u].held

\* two rejections in a row on a full record
C4_Witness ==
    \E u \in Identities :
        /\ streak[u].rejects >= 2
        /\ streak[u].held = rate_limit
        /\ Len(StoreGet(rate_limit_store, u)) = rate_limit
        /\ last.user = u

-----------------------------------------------------------------------------
(* Properties of the POST /summarize pipeline *)

Rest(r) == req[r].kind = "rest"

\* the request passed check_rate_limit: a timestamp was appended for it
Admitted(r) == Rest(r) /\ req[r].admitted_at >= 0

Answered(r) == Rest(r) /\ req[r].pc = "done"

\* C5: with requests of one identity in flight at the same time, each check
\* is made on the record the latest call left: no identity is admitted more
\* than rate_limit times in a window, the requests in flight that were
\* admitted within the current window number at most rate_limit, and every
\* appended timestamp that is still in the window is in the record.
C5_AtomicAdmission ==
    \A u \in Identities :
        /\ \A T \in 0..(horizon + rate_window) :
               WindowCount(admitted[u], T) <= rate_limit
        /\ Cardinality({r \in Slots : /\ Admitted(r)
                                      /\ req[r].user_id = u
                                      /\ req[r].admitted_at > now - rate_window})
              <= rate_limit
        /\ Prune(StoreGet(rate_limit_store, u), now - rate_window)
              = Prune(admitted[u], now - rate_window)

\* two requests of one identity at the same clock value: one was admitted
\* and is still in flight, the other was rejected with 429
C5_Witness ==
    \E r1, r2 \in Slots :
        /\ r1 # r2
        /\ Admitted(r1) /\ req[r1].pc = "call" /\ req[r1].admitted_at = now
        /\ Answered(r2) /\ req[r2].response.status = 429
        /\ req[r2].user_id = req[r1].user_id
        /\ last.t = now /\ ~last.ok

StageRank ==
    [s \in {"verify_token"} |-> 1] @@ [s \in {"check_rate_limit"} |-> 2]
    @@ [s \in {"summarize_edifact"} |-> 3]
    @@ [s \in {"convert_edifact_to_bo4e"} |-> 4] @@ [s \in {"summarize_bo4e"} |-> 5]

\* C6: a request enters its stages in the order verify_token,
\* check_rate_limit, (the call of summarize_edifact,) conversion,
\* summarization, and the first stage that raises is its last: a request
\* answered 401 never entered check_rate_limit, a request answered 429 never
\* entered conversion or summarization, and after a failed conversion nothing
\* was posted to /api/generate.
C6_StagesInOrder ==
    \A r \in Slots :
        LET t == req[r]
            n == Len(t.stages)
        IN  /\ Len(t.outcomes) = n
            /\ \A i \in 1..n :
                  StageRank[t.stages[i]] = IF t.kind = "rest" THEN i ELSE i + 2
            /\ \A i \in 1..(n - 1) : t.outcomes[i] = "ok"
            /\ (n > 0 /\ t.outcomes[n] = "raised") =>
                  t.pc = "done" /\ t.failed = t.stages[n]
            /\ (Answered(r) /\ t.response.status = 401) =>
                  \A i \in 1..n : StageRank[t.stages[i]] < 2
            /\ (Answered(r) /\ t.response.status = 429) =>
                  \A i \in 1..n : StageRank[t.stages[i]] < 3
            /\ t.failed = "convert_edifact_to_bo4e" =>
                  t.generate = <<>> /\ \A i \in 1..n : StageRank[t.stages[i]] < 5

\* a request answered 401 after verify_token alone, beside a call of
\* summarize_edifact that ended in its conversion
C6_Witness ==
    \E r1, r2 \in Slots :
        /\ Answered(r1) /\ req[r1].response.status = 401
        /\ req[r1].stages = <<"verify_token">>
        /\ req[r2].pc = "done" /\ req[r2].failed = "convert_edifact_to_bo4e"
        /\ req[r2].stages = <<"summarize_edifact", "convert_edifact_to_bo4e">>

\* C7: every request whose credentials are missing or are not an acceptable
\* token is answered 401, with the reason when verify_token refused the token.
C7_TokenFailureIs401 ==
    \A r \in Slots :
        (/\ Answered(r)
         /\ \/ req[r].credentials = NoCredentials
            \/ Defects(req[r].credentials) > 0) =>
            /\ req[r].response.status = 401
            /\ req[r].failed = "verify_token" => req[r].response.reason # ""

\* C8: an admitted request whose conversion succeeds is answered 500 with
\* "Ollama error" and the upstream status when Ollama answers with an error
\* status, with "Cannot connect" when Ollama refuses the connection, and with
\* "timed out" when the request to Ollama times out.
C8_FailureKindsDistinct ==
    \A r \in Slots :
        (Answered(r) /\ Admitted(r) /\ transformerbee = "ok") =>
            /\ ollama = "HTTPStatusError" =>
                  /\ req[r].response.status = 500
                  /\ req[r].response.detail = "Ollama error: {}"
                  /\ req[r].response.num = summarize_bo4e(ollama).status
            /\ ollama = "ConnectError" =>
                  /\ req[r].response.status = 500
                  /\ req[r].response.detail = "Cannot connect to Ollama: {}"
            /\ ollama \in {"ConnectTimeout", "ReadTimeout"} =>
                  /\ req[r].response.status = 500
                  /\ req[r].response.detail = "Ollama request timed out: {}"

\* C9: no exception other than the handler's own HTTPException(500) leaves
\* the handler of an admitted request.
C9_NoExceptionEscapes ==
    \A r \in Slots :
        (Answered(r) /\ Admitted(r)) =>
            \/ ~Raised(req[r].raised)
            \/ req[r].raised.kind = "HTTPException" /\ req[r].raised.status = 500

\* C10: an admitted request whose conversion and summarization succeed is
\* answered 200 with the text summarize_edifact returned, after one call of
\* summarize_edifact.
C10_SuccessIs200 ==
    \A r \in Slots :
        (Answered(r) /\ Admitted(r) /\ transformerbee = "ok" /\ ollama = "ok") =>
            /\ req[r].response.status = 200
            /\ req[r].response.summary = req[r].summary
            /\ req[r].summary \in Summaries
            /\ Cardinality({i \in 1..Len(req[r].stages) :
                               req[r].stages[i] = "summarize_edifact"}) = 1

-----------------------------------------------------------------------------
(* Properties of GET /health and check_ollama_health *)

\* text s contains the text part
Contains(s, part) ==
    \E i \in 1..(Len(s) - Len(part) + 1) : SubSeq(s, i, i + Len(part) - 1) = part

\* the listing request did not end in a well-formed successful listing
ListingFailed(l) ==
    \/ l.exc # "None"
    \/ l.status \notin 200..299
    \/ l.body \in {"unparsable", "array", "null_models"}
    \/ \E i \in 1..Len(l.models) : l.models[i].kind \in {"null_name", "not_a_dict"}

\* C11: check_ollama_health never raises: whatever the models-listing request
\* comes to (connect failure, timeout, non-success status, unparsable or
\* unexpectedly shaped body, success) it returns a snapshot, with the failure
\* in its error field, and GET /health answers 200, with or without credentials.
C11_HealthNeverRaises ==
    probe.pc = "done" /\ ~probe.patched =>
        /\ ~Raised(probe.raised)
        /\ probe.snapshot.ollama_host = OLLAMA_HOST
        /\ probe.snapshot.model = ollama_model
        /\ ListingFailed(probe.listing) =>
              /\ probe.snapshot.error # None
              /\ ~probe.snapshot.model_available
        /\ probe.response.status_code = 200

C11_Witness ==
    /\ probe.pc = "done"
    /\ ~probe.patched
    /\ probe.credentials = NoCredentials
    /\ probe.listing.body = "unparsable"
    /\ probe.snapshot.error = "Unexpected error: Expecting value: line 1 column 1 (char 0)"
    /\ probe.response.status_code = 200

\* C12 as stated: reachable is true if and only if the models-listing request
\* returned a success status; a non-success status yields reachable = false.
C12_ReachableIffSuccess ==
    probe.pc = "done" /\ ~probe.patched =>
        (probe.snapshot.ollama_reachable
            <=> (probe.listing.exc = "None" /\ probe.listing.status \in 200..299))

\* C12 as amended: reachable is true if and only if the models-listing request
\* returned a response, whatever its status; a response with a non-success
\* status yields reachable = true, model_available = false and the error
\* "Ollama returned error: <status>".
C12_ReachableIffResponded ==
    probe.pc = "done" /\ ~probe.patched =>
        /\ probe.snapshot.ollama_reachable <=> probe.listing.exc = "None"
        /\ (probe.listing.exc = "None" /\ probe.listing.status \notin 200..299) =>
              /\ probe.snapshot.ollama_reachable
              /\ ~probe.snapshot.model_available
              /\ probe.snapshot.error
                     = "Ollama returned error: " \o ToString(probe.listing.status)

C12_Witness ==
    /\ probe.pc = "done"
    /\ ~probe.patched
    /\ probe.listing.status = 500
    /\ probe.snapshot.ollama_reachable
    /\ probe.snapshot.error = "Ollama returned error: 500"

\* C13: the status of the GET /health response is "healthy" if and only if the
\* snapshot has ollama_reachable and model_available both true, "unhealthy"
\* otherwise; the other response fields equal the snapshot's fields.
C13_HealthyIffBoth ==
    probe.pc = "done" /\ ~Raised(probe.raised) =>
        /\ probe.response.status \in {"healthy", "unhealthy"}
        /\ probe.response.status = "healthy"
              <=> (probe.snapshot.ollama_reachable /\ probe.snapshot.model_available)
        /\ probe.response.ollama_host = probe.snapshot.ollama_host
        /\ probe.response.ollama_reachable = probe.snapshot.ollama_reachable
        /\ probe.response.model = probe.snapshot.model
        /\ probe.response.model_available = probe.snapshot.model_available
        /\ probe.response.error = probe.snapshot.error

C13_Witness ==
    /\ probe.pc = "done"
    /\ ~probe.patched
    /\ probe.snapshot.ollama_reachable
    /\ ~probe.snapshot.model_available
    /\ probe.response.status = "unhealthy"
    /\ probe.response.error # None

\* a listed name with its ":tag" suffix removed
StripTag(name) ==
    IF Colons(name) = {} THEN name
    ELSE SubSeq(name, 1, (CHOOSE i \in Colons(name) : \A j \in Colons(name) : i >= j) - 1)

\* C14: given a successful models listing, model_available is true if and only
\* if the configured model equals some listed name with its ":tag" suffix
\* removed or some listed name in full; "llama3" with "llama3:latest" listed
\* gives true, a listing of "tinyllama:latest" alone gives false.
C14_ModelAvailableIffListed ==
    probe.pc = "done" /\ ~probe.patched /\ ~ListingFailed(probe.listing) =>
        LET names == available_models_full(probe.listing.models)
        IN  /\ probe.snapshot.model_available
                  <=> \E i \in 1..Len(names) :
                         \/ StripTag(names[i]) = ollama_model
                         \/ names[i] = ollama_model
            /\ (ollama_model = "llama3" /\ \E i \in 1..Len(names) :
                                              names[i] = "llama3:latest")
                  => probe.snapshot.model_available
            /\ names = <<"tinyllama:latest">> => ~probe.snapshot.model_available

C14_Witness ==
    /\ probe.pc = "done"
    /\ ~probe.patched
    /\ ollama_model = "llama3"
    /\ Len(probe.listing.models) = 2
    /\ probe.listing.models[1].name = "tinyllama:latest"
    /\ probe.listing.models[2].name = "llama3:latest"
    /\ probe.snapshot.model_available

\* C15: when the listing succeeds but the configured model is absent, reachable
\* is true, model_available false and error is set and mentions "not found";
\* when the request fails to connect, reachable and model_available are false
\* and error is set and mentions the connection failure.
C15_FailureSnapshots ==
    probe.pc = "done" /\ ~probe.patched =>
        /\ (~ListingFailed(probe.listing)
            /\ ~model_listed(ollama_model, probe.listing.models)) =>
              /\ probe.snapshot.ollama_reachable
              /\ ~probe.snapshot.model_available
              /\ probe.snapshot.error # None
              /\ Contains(probe.snapshot.error, "not found")
        /\ probe.listing.exc = "ConnectError" =>
              /\ ~probe.snapshot.ollama_reachable
              /\ ~probe.snapshot.model_available
              /\ probe.snapshot.error # None
              /\ Contains(probe.snapshot.error, "connect")
              /\ Contains(probe.snapshot.error, "Connection refused")

C15_Witness ==
    /\ probe.pc = "done"
    /\ ~probe.patched
    /\ probe.listing.models = <<[kind |-> "named", name |-> "tinyllama:latest"]>>
    /\ probe.snapshot.ollama_reachable
    /\ probe.snapshot.error
           = "Model 'llama3' not found. Available: ['tinyllama:latest']"

-----------------------------------------------------------------------------
(* Properties of the tools and of the server's lifespan *)

\* the conversion result has more than one message unit, or one message unit
\* with more than one transaction
Multiple(ms) == Len(ms) > 1 \/ (Len(ms) = 1 /\ Len(ms[1].transaktionen) > 1)

\* C16: the convert_edifact_to_bo4e tool never silently picks one of several
\* results: when the upstream conversion returns more than one message unit,
\* or one message unit with more than one transaction, the tool fails with a
\* NotImplementedError and returns no transaction.
C16_ConvertRejectsMultiple ==
    (call.kind = "convert_edifact_to_bo4e" /\ call.pc = "done" /\ call.converted
     /\ Multiple(call.conversion.marktnachrichten)) =>
        /\ call.raised.kind = "NotImplementedError"
        /\ call.result = None

C16_Witness ==
    /\ call.kind = "convert_edifact_to_bo4e"
    /\ call.pc = "done"
    /\ Len(call.conversion.marktnachrichten) = 1
    /\ Len(call.conversion.marktnachrichten[1].transaktionen) = 2
    /\ call.raised.kind = "NotImplementedError"
    /\ call.raised.num = 2
    /\ call.result = None

\* C17: the summarize-edifact operation rejects with an unimplemented-case
\* error, and does not call the LLM, whenever its conversion yields more than
\* one message unit or a message unit with more than one transaction.  Stated
\* for the summarize_edifact_message tool, the path on which a conversion
\* result reaches the operation.
C17_SummarizeRejectsMultiple ==
    (call.kind = "summarize_edifact_message" /\ call.converted
     /\ Multiple(call.conversion.marktnachrichten)) =>
        /\ call.generate = <<>>
        /\ call.result = None
        /\ call.pc = "done" => call.raised.kind = "NotImplementedError"

\* C18: in the three tools and in the summarizer's conversion step the format
\* version handed to the upstream conversion is the caller's
\* edifact_format_version whenever one is supplied, and the value of the
\* current-version resolver exactly when none is supplied.
C18_FormatVersionPassedOn ==
    call.version_sent # None =>
        /\ call.edifact_format_version # None =>
              /\ call.version_sent = call.edifact_format_version
              /\ call.current = None
        /\ call.edifact_format_version = None =>
              /\ call.current \in FormatVersions
              /\ call.version_sent = call.current

C18_Witness ==
    /\ call.kind = "convert_bo4e_to_edifact"
    /\ call.pc = "done"
    /\ call.edifact_format_version = "FV2504"
    /\ call.version_sent = "FV2504"
    /\ call.result = "dummy_edifact_message"

\* the clients constructed in lifespan l
ClientsOf(l) == {i \in 1..Len(bee_clients) : bee_clients[i].lifespan = l}

\* C19: one upstream-conversion client is constructed per server lifespan, at
\* startup; every tool call is served while the server runs, with that client;
\* at shutdown, also after a body that ended with an error, close_session is
\* awaited exactly once on a client that has one.
C19_OneClientPerLifespan ==
    /\ \A l \in 1..MaxLifespans : Cardinality(ClientsOf(l)) <= 1
    /\ server.pc \in {"running", "ended"} => Cardinality(ClientsOf(server.lifespan)) = 1
    /\ server.pc = "failed" => ClientsOf(server.lifespan) = {}
    /\ server.pc = "running" => ClientsOf(server.lifespan) = {server.context}
    /\ \A i \in 1..Len(bee_clients) :
          bee_clients[i].close_session_calls
              = IF (server.pc = "running" /\ i = server.context)
                   \/ ~bee_clients[i].client.has_close_session
                THEN 0 ELSE 1
    /\ (call.kind \in Tools /\ call.pc # "idle") =>
          /\ call.client \in ClientsOf(call.lifespan)
          /\ call.pc \in Pending =>
                /\ server.pc = "running"
                /\ call.lifespan = server.lifespan
                /\ call.client = server.context
                /\ bee_clients[call.client].close_session_calls = 0

C19_Witness ==
    /\ server.pc = "ended"
    /\ server.body_error
    /\ server.lifespan = 2
    /\ Len(bee_clients) = 2
    /\ bee_clients[1].close_session_calls = 1
    /\ bee_clients[2].close_session_calls = 1
    /\ call.kind = "summarize_edifact_message"
    /\ call.pc = "cancelled"
    /\ call.client = 2

-----------------------------------------------------------------------------
(* Properties of the signing-key client *)

\* C20: the signing-key client is created at most once per process and every
\* verify_token call uses that one instance: however the first requests
\* interleave, get_jwks_client constructs no second client and never replaces
\* the stored one.
C20_OneSigningKeyClient ==
    /\ jwks_created <= 1
    /\ jwks_client = None <=> jwks_created = 0
    /\ jwks_client # None => jwks_client = PyJWKClient(1)
    /\ \A r \in Slots :
          (\E i \in 1..Len(req[r].stages) : req[r].stages[i] = "verify_token")
              => req[r].jwks = PyJWKClient(1)

C20_Witness ==
    /\ posted = 2
    /\ \A r \in Slots : Rest(r) /\ req[r].pc = "limit" /\ req[r].jwks = PyJWKClient(1)
    /\ jwks_created = 1

-----------------------------------------------------------------------------
(* Properties of the rate-limit key and of the upstream client *)

\* C21: the check_rate_limit call of a request is made under the subject of
\* its verified token, and under "anonymous" exactly when the token has no
\* subject: the call reads and changes the record of that key only, so the
\* requests without a subject share one record and no request is limited
\* under another key than its own.
C21_KeyIsSubject ==
    [][\A r \in Slots :
          (req[r].pc = "limit" /\ req'[r].pc # "limit") =>
              LET sub == req[r].credentials.sub
                  key == req'[r].user_id
              IN  /\ sub # None => key = sub
                  /\ key = "anonymous" <=> sub = None
                  /\ last'.user = key
                  /\ last'.before = StoreGet(rate_limit_store, key)
                  /\ \A u \in Identities \ {key} :
                        StoreGet(rate_limit_store', u) = StoreGet(rate_limit_store, u)
                  /\ \A u \in Identities \ {key} : admitted'[u] = admitted[u]
                  /\ req'[r].admitted_at >= 0 <=> admitted'[key] # admitted[key]
     ]_vars

\* two requests whose tokens have no subject: the first took the only slot of
\* the window and the second was rejected for it, while the record of user123
\* is empty
C21_Witness ==
    /\ rate_limit = 1
    /\ \E r1, r2 \in Slots :
          /\ r1 # r2
          /\ Rest(r1) /\ Rest(r2)
          /\ req[r1].credentials # NoCredentials /\ req[r2].credentials # NoCredentials
          /\ req[r1].credentials.sub = None /\ req[r2].credentials.sub = None
          /\ Admitted(r1) /\ req[r1].user_id = "anonymous"
          /\ Answered(r2) /\ req[r2].response.status = 429
          /\ req[r2].user_id = "anonymous"
    /\ StoreGet(rate_limit_store, "user123") = <<>>

\* C22: the client create_client constructs is the unauthenticated variant
\* if and only if the client id or the client secret is unset or empty, and
\* otherwise the authenticated variant holding the given host, id and secret.
C22_ClientVariant ==
    ~server.environ.injected =>
        \A i \in 1..Len(bee_clients) :
            LET c == bee_clients[i].client
                id == server.environ.client_id
                secret == server.environ.client_secret
                absent == id \in {None, ""} \/ secret \in {None, ""}
            IN  /\ c.variant \in {"UnauthenticatedTransformerBeeClient",
                                  "AuthenticatedTransformerBeeClient"}
                /\ c.variant = "UnauthenticatedTransformerBeeClient" <=> absent
                /\ c.host = server.environ.host
                /\ c.variant = "AuthenticatedTransformerBeeClient" =>
                      /\ c.oauth_client_id = id /\ id = "my-client-id"
                      /\ c.oauth_client_secret = secret /\ secret = "my-client-secret"

\* a client id with an empty secret: the server runs with the
\* unauthenticated client
C22_Witness ==
    /\ server.pc = "running"
    /\ server.environ.client_id = "my-client-id"
    /\ server.environ.client_secret = ""
    /\ ~server.environ.injected
    /\ bee_clients[server.context].client.variant
          = "UnauthenticatedTransformerBeeClient"
    /\ bee_clients[server.context].client.host = "https://mock.com"

-----------------------------------------------------------------------------
(* Properties of the summarizer's functions and of the tools' error paths *)

\* C23: when the request to /api/generate fails, summarize_bo4e raises the
\* error it received, of the same class (HTTPStatusError with the status,
\* ConnectError, or the timeout that occurred), never a generic error and
\* never a summary; summarize_edifact lets the same error through.
C23_TypedErrorsPropagate ==
    (call.kind \in {"summarize_bo4e", "summarize_edifact"} /\ call.pc = "done"
     /\ call.generate # <<>>) =>
        /\ call.llm = "HTTPStatusError" =>
              call.raised.kind = "HTTPStatusError" /\ call.raised.status = 503
        /\ call.llm = "ConnectError" => call.raised.kind = "ConnectError"
        /\ call.llm \in {"ConnectTimeout", "ReadTimeout"} =>
              /\ call.raised.kind = call.llm
              /\ IsSubclass(call.raised.kind, "TimeoutException")
        /\ call.llm # "ok" =>
              /\ call.result = None
              /\ call.raised.kind \notin {"None", "Exception"}
        /\ call.llm = "ok" => ~Raised(call.raised) /\ call.result \in Summaries

\* summarize_edifact whose conversion succeeded and whose request to the LLM
\* timed out
C23_Witness ==
    /\ call.kind = "summarize_edifact"
    /\ call.pc = "done"
    /\ call.converted
    /\ Len(call.generate) = 1
    /\ call.llm = "ReadTimeout"
    /\ call.raised.kind = "ReadTimeout"
    /\ call.result = None

\* C24: a call of summarize_edifact with the EDIFACT text as its only
\* argument, answered by the LLM, posts once to /api/generate with model = the
\* configured model, system = the system prompt, prompt = the text passed in
\* and stream = false, and returns the "response" field of the answer.
C24_OnePostWithTheText ==
    \A r \in Slots :
        (req[r].kind = "direct" /\ req[r].nargs = 1 /\ req[r].pc = "done"
         /\ ollama = "ok") =>
            /\ ~Raised(req[r].raised)
            /\ Len(req[r].generate) = 1
            /\ req[r].generate[1] = [model |-> OLLAMA_MODEL, system |-> SYSTEM_PROMPT,
                                     prompt |-> req[r].edifact, stream |-> FALSE]
            /\ req[r].summary \in Summaries

\* text s begins with the text prefix
StartsWith(s, prefix) ==
    Len(s) >= Len(prefix) /\ SubSeq(s, 1, Len(prefix)) = prefix

\* the notifications of success among the events of the call in flight
SuccessNotifications ==
    {i \in 1..Len(call.events) : StartsWith(call.events[i], "info: Successfully")}

\* C25: when the upstream conversion raises, convert_edifact_to_bo4e and
\* convert_bo4e_to_edifact log the error and raise the same one: the error
\* that leaves the tool has the class and the status of the one the client
\* raised, the tool returns nothing and sends no notification of success.
C25_ConversionErrorReraised ==
    (call.kind \in {"convert_edifact_to_bo4e", "convert_bo4e_to_edifact"}
     /\ call.pc = "done" /\ call.conversion.exc # "None") =>
        /\ call.raised.kind = call.conversion.exc
        /\ call.raised = upstream_raises(call.conversion)
        /\ call.conversion.exc = "ClientResponseError" => call.raised.status = 400
        /\ call.result = None
        /\ ~call.converted
        /\ SuccessNotifications = {}
        /\ \E i \in 1..Len(call.events) : call.events[i] = "log: exception"
        /\ \A i \in 1..Len(call.events) : ~StartsWith(call.events[i], "info: ")

\* convert_bo4e_to_edifact whose upstream call was rejected with status 400
C25_Witness ==
    /\ call.kind = "convert_bo4e_to_edifact"
    /\ call.pc = "done"
    /\ call.conversion.exc = "ClientResponseError"
    /\ call.raised.kind = "ClientResponseError"
    /\ call.raised.status = 400
    /\ call.events = <<"convert_to_edifact", "log: exception">>
    /\ call.result = None

-----------------------------------------------------------------------------
(* Invariants and frame conditions of the rate limiter *)

\* C26: right after a check_rate_limit call for an identity at time T,
\* admitted or rejected, every timestamp stored for the identity lies in
\* (T - rate_window, T]; the count compared with rate_limit is that of the
\* pruned list, taken before the timestamp of the call is appended.
C26_WindowInvariant ==
    last.user # None =>
        LET T == last.t
            pruned == SelectSeq(last.before, LAMBDA x : x > T - rate_window)
        IN  /\ StoreGet(rate_limit_store, last.user) = last.after
            /\ \A i \in 1..Len(last.after) :
                  last.after[i] > T - rate_window /\ last.after[i] <= T
            /\ last.ok <=> Len(pruned) < rate_limit
            /\ last.after = IF last.ok THEN Append(pruned, T) ELSE pruned

\* a call that found a stale and a fresh timestamp: the stale one was
\* removed, the fresh one kept, and the call was admitted on the count of one
C26_Witness ==
    /\ last.user # None
    /\ last.ok
    /\ rate_limit = 2
    /\ Len(last.before) = 2
    /\ last.before[1] <= last.t - rate_window
    /\ last.before[2] > last.t - rate_window
    /\ last.after = <<last.before[2], last.t>>

\* C27: a check_rate_limit call for one identity leaves the stored list of
\* every other identity as it was, and its outcome is decided by the admitted
\* timestamps of its own identity: it is rejected exactly when rate_limit of
\* them lie in the window of the call, whatever the other identities did.
C27_PerIdentity ==
    [][/\ \A B \in Identities :
             B # last'.user =>
                 /\ StoreGet(rate_limit_store', B) = StoreGet(rate_limit_store, B)
                 /\ admitted'[B] = admitted[B]
       /\ last' # last =>
             LET own == WindowCount(admitted[last'.user], last'.t)
             IN  /\ last'.ok <=> own < rate_limit
                 /\ last'.before = StoreGet(rate_limit_store, last'.user)
      ]_vars

\* user123 has used up its limit and was rejected; a call of the other
\* identity at the same clock value is admitted
C27_Witness ==
    /\ streak["user123"].rejects > 0
    /\ Len(StoreGet(rate_limit_store, "user123")) = rate_limit
    /\ WindowCount(admitted["user123"], now) = rate_limit
    /\ last.user = "anonymous"
    /\ last.t = now
    /\ last.ok
    /\ last.before = <<>>

\* the events of the call in flight without its log records
Visible == SelectSeq(call.events, LAMBDA ev : ~StartsWith(ev, "log: "))

\* the notification of the conversion of n message units
ConvertedInfo(n) == "info: Converted " \o ToString(n) \o " Marktnachricht(en) to BO4E"

\* C28: a summarize_edifact_message call does, in this order: the conversion
\* call, the notification "Converted N Marktnachricht(en)", the call of the
\* LLM, the notification "Successfully generated summary", the return.  When
\* the conversion or the summarization fails, the notification "Error
\* generating summary" is sent, the exception that occurred leaves the tool,
\* and no notification of success is sent.
C28_SummarizeToolOrder ==
    call.kind = "summarize_edifact_message" =>
        LET n == Len(call.conversion.marktnachrichten)
            steps == <<"convert_to_bo4e", ConvertedInfo(n), "generate",
                       "info: Successfully generated summary">>
            failed == call.pc = "done" /\ Raised(call.raised)
        IN  /\ call.pc = "convert" => Visible = <<>>
            /\ call.pc = "converting" => Visible = SubSeq(steps, 1, 1)
            /\ call.pc = "info_converted" => Visible = SubSeq(steps, 1, 1)
            /\ call.pc = "generating" => Visible = SubSeq(steps, 1, 3)
            /\ call.pc = "info_summary" => Visible = SubSeq(steps, 1, 3)
            /\ call.pc = "info_error" => Visible \in {SubSeq(steps, 1, 1), SubSeq(steps, 1, 3)}
            /\ call.pc \in Pending \cup {"cancelled"} =>
                  call.result = None /\ ~Raised(call.raised)
            /\ (call.pc = "done" /\ ~Raised(call.raised)) =>
                  Visible = steps /\ call.result \in Summaries
            /\ call.result # None => Visible = steps
            /\ failed =>
                  /\ call.result = None
                  /\ \A i \in 1..Len(Visible) :
                        Visible[i] # "info: Successfully generated summary"
                  /\ Len(Visible) \in {2, 4}
                  /\ StartsWith(Visible[Len(Visible)], "info: Error generating summary")
                  /\ Len(Visible) = 2 =>
                        /\ Visible[1] = "convert_to_bo4e"
                        /\ call.conversion.exc # "None"
                        /\ call.raised = upstream_raises(call.conversion)
                        /\ call.generate = <<>>
                  /\ Len(Visible) = 4 =>
                        /\ SubSeq(Visible, 1, 3) = SubSeq(steps, 1, 3)
                        /\ call.llm # "ok"
                        /\ call.raised.kind = IF call.llm = "no_response_key"
                                              THEN "KeyError" ELSE call.llm

\* the LLM refused the connection after two message units were converted
C28_Witness ==
    /\ call.kind = "summarize_edifact_message"
    /\ call.pc = "done"
    /\ call.llm = "ConnectError"
    /\ call.raised.kind = "ConnectError"
    /\ call.events = <<"convert_to_bo4e", ConvertedInfo(2), "generate",
                       "log: exception",
                       "info: Error generating summary: Connection refused">>

\* C29: with the host setting unset or empty the start of the server fails
\* with a ValueError before a client is constructed: the server never runs,
\* no context is yielded, no tool call is served, and close_session is
\* awaited on nothing.
C29_NoHostNoStart ==
    /\ server.pc = "failed" =>
          /\ server.environ.host \in {None, ""}
          /\ server.raised.kind = "ValueError"
          /\ server.raised.detail
                = "Environment variable 'TRANSFORMERBEE_HOST' not set"
    /\ server.environ.host \in {None, ""} =>
          /\ server.pc \in {"stopped", "failed"}
          /\ server.lifespan > 0 => server.pc = "failed"
          /\ server.context = 0
          /\ bee_clients = <<>>
          /\ call.kind \notin Tools
    /\ server.pc = "failed" => ClientsOf(server.lifespan) = {}

\* the host is the empty string while id and secret are set: the second
\* start fails like the first
C29_Witness ==
    /\ server.pc = "failed"
    /\ server.lifespan = 2
    /\ server.environ.host = ""
    /\ server.environ.client_id = "my-client-id"
    /\ server.environ.client_secret = "my-client-secret"
    /\ server.raised.kind = "ValueError"
    /\ bee_clients = <<>>

\* how often timestamp t occurs in seq
Occurrences(seq, t) == Cardinality({i \in 1..Len(seq) : seq[i] = t})

\* C30: the timestamp appended for an admitted request stays in the record
\* of its identity whatever becomes of the request, also when it is answered
\* 500: while the timestamp is in the window the record holds it, once for
\* each request admitted at that time, and a later check of the same identity
\* within the window finds it and counts it.
C30_SlotStaysConsumed ==
    \A r \in Slots :
        (Admitted(r) /\ req[r].admitted_at > now - rate_window) =>
            LET u == req[r].user_id
                t == req[r].admitted_at
            IN  /\ Occurrences(StoreGet(rate_limit_store, u), t)
                      >= Cardinality({q \in Slots : /\ Admitted(q)
                                                    /\ req[q].user_id = u
                                                    /\ req[q].admitted_at = t})
                /\ (last.user = u /\ last.t > t) =>
                      /\ Occurrences(last.before, t) >= 1
                      /\ ~last.ok <=>
                            Len(SelectSeq(last.before,
                                          LAMBDA x : x > last.t - rate_window))
                                >= rate_limit

\* a request was admitted and answered 500; the next request of the same
\* identity, later in the window, is rejected because of its timestamp
C30_Witness ==
    /\ rate_limit = 1
    /\ \E r1, r2 \in Slots :
          /\ Answered(r1) /\ Admitted(r1) /\ req[r1].response.status = 500
          /\ Answered(r2) /\ req[r2].response.status = 429
          /\ req[r2].user_id = req[r1].user_id
          /\ last.user = req[r1].user_id
          /\ last.t > req[r1].admitted_at
          /\ ~last.ok
          /\ last.before = <<req[r1].admitted_at>>

-----------------------------------------------------------------------------
(* Frame conditions of the gateway's routes *)

\* C31: the rate-limit record changes only in the check_rate_limit call of a
\* POST /summarize request whose token was verified: no step of a GET /health
\* request and no step of a request that is answered 401 (or that failed in
\* verify_token otherwise) changes the record of any identity or creates one.
C31_OnlyAuthenticatedPostsRecord ==
    [][/\ probe' # probe =>
             rate_limit_store' = rate_limit_store /\ admitted' = admitted
       /\ \A r \in Slots :
             (req'[r] # req[r] /\ req'[r].pc = "done"
              /\ req'[r].failed \in {"security", "verify_token"}) =>
                 rate_limit_store' = rate_limit_store /\ admitted' = admitted
       /\ \A r \in Slots :
             (req[r].pc = "done" /\ req[r].response.status = 401) =>
                 /\ req[r].admitted_at = -1
                 /\ req[r].user_id = None
       /\ rate_limit_store' # rate_limit_store =>
             \E r \in Slots :
                /\ req[r].kind = "rest" /\ req[r].pc = "limit"
                /\ req'[r].pc # "limit"
                /\ req[r].credentials # NoCredentials
                /\ Defects(req[r].credentials) = 0
                /\ \A u \in Identities \ {req'[r].user_id} :
                      StoreGet(rate_limit_store', u) = StoreGet(rate_limit_store, u)
      ]_vars

\* the record holds a timestamp of user123; after it was written a request
\* without credentials was answered 401 and a GET /health was answered
C31_Witness ==
    /\ StoreGet(rate_limit_store, "user123") # <<>>
    /\ "anonymous" \notin DOMAIN rate_limit_store
    /\ req[1].pc = "done"
    /\ req[1].credentials = NoCredentials
    /\ req[1].response.status = 401
    /\ probe.pc = "done"
    /\ probe.response.status_code = 200
    /\ posted = 2

-----------------------------------------------------------------------------
(* Invariants of the health snapshot *)

\* C32: in every snapshot check_ollama_health returns, model_available
\* implies ollama_reachable, and error is None if and only if model_available
\* is true: no snapshot has an available model on an unreachable host, and
\* every snapshot that makes the response unhealthy carries an error text.
C32_SnapshotInvariant ==
    (probe.pc = "done" /\ ~probe.patched /\ ~Raised(probe.raised)) =>
        /\ probe.snapshot.model_available => probe.snapshot.ollama_reachable
        /\ probe.snapshot.error = None <=> probe.snapshot.model_available
        /\ ~(probe.snapshot.model_available /\ ~probe.snapshot.ollama_reachable)
        /\ probe.response.status = "unhealthy" =>
              /\ probe.snapshot.error # None
              /\ Len(probe.snapshot.error) > 0

\* a listing answered 200 with a JSON array for a body: the host is
\* reachable, no model is available and the error says what went wrong
C32_Witness ==
    /\ probe.pc = "done"
    /\ ~probe.patched
    /\ probe.listing.status = 200
    /\ probe.listing.body = "array"
    /\ probe.snapshot.ollama_reachable
    /\ ~probe.snapshot.model_available
    /\ probe.snapshot.error # None
    /\ StartsWith(probe.snapshot.error, "Unexpected error: ")
    /\ probe.response.status = "unhealthy"

-----------------------------------------------------------------------------
(* Properties of the result and of the notification of the convert tool *)

\* C33: convert_edifact_to_bo4e returns a transaction if and only if the
\* upstream conversion succeeded with exactly one message unit that holds
\* exactly one transaction, and what it returns is that transaction; with no
\* message unit, or a message unit without a transaction, it raises.
C33_ReturnsTheOnlyTransaction ==
    (call.kind = "convert_edifact_to_bo4e" /\ call.pc = "done") =>
        LET ms == call.conversion.marktnachrichten
            single == /\ call.conversion.exc = "None"
                      /\ Len(ms) = 1
                      /\ Len(ms[1].transaktionen) = 1
        IN  /\ call.result # None <=> single
            /\ single => call.result = ms[1].transaktionen[1] /\ ~Raised(call.raised)
            /\ ~single => Raised(call.raised)
            /\ (call.conversion.exc = "None"
                /\ (Len(ms) = 0 \/ (Len(ms) = 1 /\ Len(ms[1].transaktionen) = 0))) =>
                  /\ call.raised.kind = "IndexError"
                  /\ call.result = None

\* the upstream conversion returned one message unit without a transaction
C33_Witness ==
    /\ call.kind = "convert_edifact_to_bo4e"
    /\ call.pc = "done"
    /\ call.conversion.exc = "None"
    /\ Len(call.conversion.marktnachrichten) = 1
    /\ call.conversion.marktnachrichten[1].transaktionen = <<>>
    /\ call.raised.kind = "IndexError"
    /\ call.result = None

\* the notifications among the events of the call in flight
Notifications == SelectSeq(call.events, LAMBDA ev : StartsWith(ev, "info: "))

\* C34: convert_edifact_to_bo4e sends its notification "Successfully
\* converted" after the count of message units was checked and before the
\* count of transactions is: a call rejected for more than one message unit
\* has sent no notification, a call rejected for more than one transaction
\* has sent it.
C34_NotificationBetweenChecks ==
    (call.kind = "convert_edifact_to_bo4e" /\ call.pc = "done" /\ call.converted) =>
        LET ms == call.conversion.marktnachrichten
        IN  /\ Len(ms) > 1 =>
                  /\ call.raised.kind = "NotImplementedError"
                  /\ call.raised.num = Len(ms)
                  /\ Notifications = <<>>
            /\ (Len(ms) = 1 /\ Len(ms[1].transaktionen) > 1) =>
                  /\ call.raised.kind = "NotImplementedError"
                  /\ call.raised.num = Len(ms[1].transaktionen)
                  /\ Notifications = <<"info: Successfully converted">>
            /\ Len(ms) = 0 => Notifications = <<>>
            /\ Len(ms) = 1 => Notifications = <<"info: Successfully converted">>

\* a call rejected for the two transactions of its only message unit, with
\* the notification among its events
C34_Witness ==
    /\ call.kind = "convert_edifact_to_bo4e"
    /\ call.pc = "done"
    /\ Len(call.conversion.marktnachrichten) = 1
    /\ Len(call.conversion.marktnachrichten[1].transaktionen) = 2
    /\ call.raised.kind = "NotImplementedError"
    /\ call.events = <<"convert_to_bo4e", "info: Successfully converted">>

=============================================================================
